---- MODULE Spec2Model ----
(***************************************************************************)
(* Model of the ai-news pipeline orchestration.                            *)
(*                                                                         *)
(*  - scripts/workflow.py: WorkflowManager (constructor, run_full_workflow,*)
(*    get_status) and its command-line main().                             *)
(*  - scripts/testing/run.py: run_pipeline() and its main().               *)
(*  - scripts/extract_regex.py: extract_sections() as a function of the    *)
(*    matches its patterns find in a text, update_database_with_sections() *)
(*    and main() (the extraction stage).                                   *)
(*  - scripts/fetch.py save_to_db(), scripts/parse.py convert_pdfs() and   *)
(*    WorkflowManager.clear_workspace() as stages run one after another on *)
(*    the same database, conversions directory and sections file.          *)
(*                                                                         *)
(*  - scripts/parse_parallel.py: convert_pdfs_parallel() and its           *)
(*    convert_pdf() tasks, with the conversions running in threads.        *)
(*                                                                         *)
(* One behaviour of the model is one execution of one entry point; the     *)
(* variable "entry" says which.  External programs (the stage scripts, the *)
(* snapshot dumps, the file system) are nondeterministic outcomes.         *)
(***************************************************************************)
EXTENDS Integers, Sequences, FiniteSets, TLC

VARIABLES
    entry,          \* which program runs: workflow.py main, WorkflowManager used as a library, testing/run.py main,
                    \* one call of extract_sections, one call of update_database_with_sections,
                    \* a sequence of stage runs, one run of convert_pdfs_parallel
    files,          \* the script paths that exist under the project root
    \* ---- workflow.py: WorkflowManager object ----
    wm,             \* "none" (not constructed), "ready", "raised" (FileNotFoundError)
    state,          \* self.state : Dict[str, bool]
    \* ---- workflow.py: one activation of run_full_workflow ----
    pc,             \* "idle", "loop", "in_step", "returned"
    start_from,     \* the argument of the current/latest call
    steps,          \* the local list "steps" (after truncation)
    i,              \* position of the for loop in steps (1-based)
    running,        \* steps whose step_func is executing now
    invoked,        \* history: the steps whose step_func was called in this call, in order
    outcomes,       \* history: <<step, success>> of the step_funcs that returned in this call, in order
    ret,            \* "none", "True", "False": the value returned by the latest call
    log_error,      \* the last logging.error of the call: <<kind, name>> or <<>>
    runs,           \* number of calls of run_full_workflow made on the object
    prev_state,     \* history: self.state as it was when the current/latest call began
    \* ---- workflow.py: main ----
    main_pc,        \* "parse_args", "construct", "run", "after_run", "exited"
    args,           \* parsed command line: [start_from, show_summaries]
    exit_code,      \* exit status of the process (meaningful when main_pc = "exited")
    \* ---- testing/run.py ----
    rp_pc,          \* "main", "loop", "script", "sleep", "dump_summaries", "final_dump", "done", "skipped"
    rp_i,           \* position of the for loop in pipeline (1-based)
    rp_running,     \* scripts whose subprocess is executing now
    rp_success,     \* the local "success" of the current iteration
    rp_log,         \* history: the events of the run in order
    rp_ret,         \* "none", "True", "False", "raised"
    rp_exit,        \* exit status of testing/run.py (meaningful when rp_pc \in {"done","skipped"})
    \* ---- extract_regex.py: one call of extract_sections ----
    ex_text,        \* the artifact given: what it holds and what each pattern finds in its text
    ex_result,      \* [called, sections, prints, raised]: what the call returned and printed
    \* ---- the files the stages share ----
    db,             \* table full_documents: id -> [abstract, conclusion]
    conv,           \* conversions/<id>.json: id -> artifact
    sections_json,  \* conversions/sections_regex.json: id -> sections (no file reads as {})
    \* ---- stage runs ----
    st_pc,          \* "idle" (no stage running), "ex_loop" (extract_regex.py main in its loop)
    stage_runs,     \* number of stage runs started
    last_stage,     \* the stage that ended last: "none", "fetch", "download", "parse",
                    \* "summarise", "clear",
                    \* "extract" (main returned), "extract_raised" (main raised
                    \* at the save), "extract_interrupted" (main was cut short)
    \* ---- extract_regex.py: one run of main ----
    existing_sections,   \* the local existing_sections
    extracted_sections,  \* the local extracted_sections
    documents,           \* the ids read from full_documents
    di,                  \* position of the for loop in documents (1-based)
    successful_updates,  \* the three counters
    skipped,
    failed,
    ex_invoked,     \* history: ids extract_sections was called for in this run
    ex_written,     \* history: ids whose UPDATE was committed in this run
    ex_failed_ids,  \* history: ids counted as failed in this run
    ex_verified,    \* history: ids whose re-read after the UPDATE agreed with what was sent
    ex_mismatched,  \* history: ids whose re-read after the UPDATE differed from what was sent
    ex_redo,        \* history: ids written by the run before this one, when that run was cut short
    ex_db0,         \* history: full_documents as it was when this run began
    ex_clean,       \* history: every update of this run returned True and the file was saved
    in_succession,  \* history: the stage that ended before this run began was an
                    \* extraction run that returned
    \* ---- extract_regex.py: one call of update_database_with_sections ----
    up_result,      \* [called, id, sections, before, ret, wrote]
    \* ---- parse_parallel.py: one run of convert_pdfs_parallel ----
    pp_n,           \* len(input_paths): the PDFs are numbered 0 .. pp_n - 1 in glob order
    pp_out,         \* conversions/<stem>.json of each PDF: "absent", "old" (there before
                    \* the run), "new" (written by the run), "partial" (opened, dump failed)
    pp_pc,          \* "start", "gathering", "settled", "returned" (no PDF), "raised"
    pp_tasks,       \* the list tasks: [job, worker] per coroutine
    pp_state,       \* per task: "created", "converting" (converter.convert runs in its
                    \* thread), "converted", "convert_raised", "done"
    pp_results,     \* per task: what gather collects, "none" until the coroutine returns
    pp_counts,      \* [successful, failed, skipped] of the summary
    pp_calls,       \* history: per task, the number of calls of converter.convert
    pp_skipped,     \* history: the tasks that returned at "output already exists"
    pp_access,      \* history: per output file, the tasks that tested it and that opened it to write
    pp_out0,        \* history: pp_out as it was when the run began
    \* test_relevance/download.py: one call of download_pdf
    dl_pc,          \* where the call is: "attempting", "sleeping", "returned", "raised"
    dl_attempt,     \* the loop variable attempt
    dl_ret,         \* what the call returned: "none" (not yet), "True", "False", "None"
    dl_file,        \* the file at file_path: "absent", "partial", "written"
    dl_log          \* history: the attempts with how each ended, and the sleeps with their delay

vars == <<entry, files, wm, state, pc, start_from, steps, i, running, invoked, outcomes, ret,
          log_error, runs, prev_state, main_pc, args, exit_code,
          rp_pc, rp_i, rp_running, rp_success, rp_log, rp_ret, rp_exit,
          ex_text, ex_result,
          db, conv, sections_json, st_pc, stage_runs, last_stage,
          existing_sections, extracted_sections, documents, di, successful_updates, skipped, failed,
          ex_invoked, ex_written, ex_failed_ids, ex_verified, ex_mismatched, ex_redo,
              ex_db0, ex_clean, in_succession,
          up_result,
          pp_n, pp_out, pp_pc, pp_tasks, pp_state, pp_results, pp_counts, pp_calls, pp_skipped,
          pp_access, pp_out0,
          dl_pc, dl_attempt, dl_ret, dl_file, dl_log>>

wfObj  == <<wm, state>>
wfRun  == <<pc, start_from, steps, i, running, invoked, outcomes, ret, log_error, runs, prev_state>>
wfMain == <<main_pc, args, exit_code>>
rpVars == <<rp_pc, rp_i, rp_running, rp_success, rp_log, rp_ret, rp_exit>>
exVars == <<ex_text, ex_result>>
storeVars == <<db, conv, sections_json>>
stVars == <<st_pc, stage_runs, last_stage>>
mainVars == <<existing_sections, extracted_sections, documents, di, successful_updates, skipped, failed,
              ex_invoked, ex_written, ex_failed_ids, ex_verified, ex_mismatched, ex_redo,
              ex_db0, ex_clean, in_succession>>
stageVars == <<storeVars, stVars, mainVars, up_result>>
ppVars == <<pp_n, pp_out, pp_pc, pp_tasks, pp_state, pp_results, pp_counts, pp_calls, pp_skipped,
            pp_access, pp_out0>>
dlVars == <<dl_pc, dl_attempt, dl_ret, dl_file, dl_log>>

----------------------------------------------------------------------------
(* Bounds *)

\* number of patterns of extract_sections that find a match in one text
MaxMatched == 2

\* number of PDFs in the pdfs directory in a run of convert_pdfs_parallel
MaxJobs == 4

\* number of stage runs (fetch, parse, extract, clear) made one after another
MaxStageRuns == 5

\* number of run_full_workflow calls made on one WorkflowManager used as a library
MaxRuns == 2

----------------------------------------------------------------------------
(* workflow.py: data *)

\* Python's None, as a value distinct from every str
None == "None:NoneType"

\* WorkflowManager.REQUIRED_FILES
REQUIRED_FILES ==
    [clear     |-> "scripts/clear_db.py",
     fetch     |-> "scripts/fetch.py",
     download  |-> "scripts/download.py",
     parse     |-> "scripts/parse.py",
     extract   |-> "scripts/extract_regex.py",
     summarise |-> "scripts/summarise.py"]

\* the names of the list "steps" of run_full_workflow, in order
StepNames == <<"clear", "fetch", "download", "parse", "extract", "summarise">>

\* argparse choices of --start-from
Choices == {"clear", "fetch", "download", "parse", "extract", "summarise"}

AllScripts == {REQUIRED_FILES[n] : n \in DOMAIN REQUIRED_FILES}

\* values given for start_from: every stage name, None (no option), the empty
\* string and a name that is no stage
StartInputs == Choices \cup {None, "", "bogus"}

Range(s) == {s[k] : k \in 1..Len(s)}

\* d[k] = v on a Python dict
DictSet(d, k, v) == [n \in (DOMAIN d) \cup {k} |-> IF n = k THEN v ELSE d[n]]

EmptyDict == [n \in {} |-> FALSE]

\* variant of VerifyRequiredFiles: the existence test is dropped
VerifyRequiredFilesNoCheck(fs) == {}

\* WorkflowManager._verify_required_files: the scripts that do not exist
\* (every path of REQUIRED_FILES has the part "scripts", so the elif never adds)
VerifyRequiredFiles(fs) == {REQUIRED_FILES[n] : n \in {m \in DOMAIN REQUIRED_FILES : REQUIRED_FILES[m] \notin fs}}

\* "if start_from:" : Python truthiness of an Optional[str]
Truthy(sf) == sf # None /\ sf # ""

\* next(i for i, (name, _) in enumerate(steps) if name == start_from), 1-based;
\* 0 stands for StopIteration
StartIdx(sf) ==
    IF \E k \in 1..Len(StepNames) : StepNames[k] = sf
    THEN CHOOSE k \in 1..Len(StepNames) :
            /\ StepNames[k] = sf
            /\ \A j \in 1..(k - 1) : StepNames[j] # sf
    ELSE 0

\* variant of Truncate: the slice is dropped and the whole list is kept
TruncateNothing(k) == StepNames

\* steps[start_idx:]
Truncate(k) == SubSeq(StepNames, k, Len(StepNames))

----------------------------------------------------------------------------
(* testing/run.py: data *)

\* the list "pipeline" of run_pipeline: (script, required)
pipeline ==
    << <<"fetch.py", TRUE>>,
       <<"download.py", TRUE>>,
       <<"parse.py", TRUE>>,
       <<"extract_regex.py", TRUE>>,
       <<"summarise.py", TRUE>> >>

Script(k)   == pipeline[k][1]
Required(k) == pipeline[k][2]

----------------------------------------------------------------------------
(* extract_regex.py: strings *)

\* A string is a sequence of pieces <<kind, length>>: "w" is a run of
\* non-blank characters, "sp" a blank, "nl" a newline, "ref" the word
\* "References" at the start of what follows.
W(n) == <<"w", n>>
SP   == <<"sp", 1>>
NL   == <<"nl", 1>>
REF  == <<"ref", 10>>

\* Python's None where a str is expected: a value no string equals
NoneText == << <<"None", 0>> >>

IsSpace(t) == t[1] \in {"sp", "nl"}

RECURSIVE StrLen(_)
\* len(s)
StrLen(s) == IF s = <<>> THEN 0 ELSE Head(s)[2] + StrLen(Tail(s))

RECURSIVE LStrip(_)
LStrip(s) == IF s # <<>> /\ IsSpace(Head(s)) THEN LStrip(Tail(s)) ELSE s

RECURSIVE RStrip(_)
RStrip(s) == IF s # <<>> /\ IsSpace(s[Len(s)]) THEN RStrip(SubSeq(s, 1, Len(s) - 1)) ELSE s

\* s.strip()
Strip(s) == RStrip(LStrip(s))

RECURSIVE Collapse(_)
\* re.sub(r'\s+', ' ', s)
Collapse(s) ==
    IF s = <<>> THEN <<>>
    ELSE IF IsSpace(Head(s)) THEN <<SP>> \o Collapse(LStrip(s))
    ELSE <<Head(s)>> \o Collapse(Tail(s))

\* r'\n\s*References?|\n\s*REFERENCES?' matches at position p of s
ReferencesAt(s, p) ==
    /\ s[p][1] = "nl"
    /\ LET rest == LStrip(SubSeq(s, p + 1, Len(s)))
       IN  rest # <<>> /\ rest[1][1] = "ref"

\* re.split(r'\n\s*References?|\n\s*REFERENCES?', s)[0]
SplitReferences(s) ==
    IF \E p \in 1..Len(s) : ReferencesAt(s, p)
    THEN LET p == CHOOSE q \in 1..Len(s) :
                    ReferencesAt(s, q) /\ \A r \in 1..(q - 1) : ~ReferencesAt(s, r)
         IN  SubSeq(s, 1, p - 1)
    ELSE s

----------------------------------------------------------------------------
(* extract_regex.py: extract_sections *)

\* the number of the minimum length checks "len(...) > 50"
MinLength == 50

\* number of entries of abstract_patterns, conclusion_patterns, discussion_patterns
NAbstractPatterns   == 6
NConclusionPatterns == 6
NDiscussionPatterns == 5

\* re.search found nothing / found a match whose group(1) is g
NoMatch    == [matched |-> FALSE, group |-> <<>>]
Matched(g) == [matched |-> TRUE, group |-> g]

\* the captures the texts are built from: around the minimum length, with and
\* without blanks that the normalisation removes, with a References heading
\* on a line of its own after other text, and with a References heading on
\* the line right after the section heading (the capture begins with it)
Captures ==
    { << W(30), NL, NL, W(19) >>,
      << NL, W(30), NL, SP, SP, W(20), NL >>,
      << W(60), NL, REF, NL, W(30) >>,
      << REF, NL, W(60) >> }

\* the lookahead that ends the lazy group (.*?) of pattern k of the list
\* matches at a newline, optional blanks and "Reference": every conclusion and
\* discussion pattern names Reference there, and the abstract patterns 1 to 4
\* stop at a newline followed by two letters (the search ignores case)
StopsAtReferences(list, k) == list \in {"conclusion", "discussion"} \/ k <= 4

\* pattern k of the list reads "heading, \s*\n, (group)": its group begins
\* at the start of a line (the other patterns read "heading, [:\.]?\s*, (group)")
GroupStartsLine(list, k) ==
    \/ list = "abstract" /\ k \in {1, 2}
    \/ list = "conclusion" /\ k \in {1, 2, 3, 6}
    \/ list = "discussion" /\ k \in {1, 2, 3, 5}

\* group(1) of pattern k can be g: the lazy group ends at the first place
\* where the lookahead matches, so it holds no such place
CanCapture(list, k, g) ==
    StopsAtReferences(list, k) => ~\E p \in 1..Len(g) : ReferencesAt(g, p)

PatternIds ==
    ({"abstract"} \X (1..NAbstractPatterns))
        \cup ({"conclusion"} \X (1..NConclusionPatterns))
        \cup ({"discussion"} \X (1..NDiscussionPatterns))

\* what the patterns of one list find, given the captures f of the matching patterns
MatchesOf(f, list, n) ==
    [k \in 1..n |-> IF <<list, k>> \in DOMAIN f THEN Matched(f[<<list, k>>]) ELSE NoMatch]

\* an artifact whose text was read: what every pattern finds in it
TextOf(f) ==
    [kind       |-> "text",
     abstract   |-> MatchesOf(f, "abstract", NAbstractPatterns),
     conclusion |-> MatchesOf(f, "conclusion", NConclusionPatterns),
     discussion |-> MatchesOf(f, "discussion", NDiscussionPatterns)]

\* an artifact that cannot be opened or parsed ("unreadable") and one whose
\* content is empty or blank ("no_content")
Special(kind) == [TextOf(<<>>) EXCEPT !.kind = kind]

\* the artifacts extract_sections is called with
Texts ==
    {Special("unreadable"), Special("no_content")}
        \cup { TextOf(f) : f \in UNION {
                    {h \in [S -> Captures] : \A id \in S : CanCapture(id[1], id[2], h[id])} :
                    S \in {T \in SUBSET PatternIds : Cardinality(T) <= MaxMatched} } }

\* variant of LongEnough: the check is "at least the minimum"
LongEnoughInclusive(text) == StrLen(text) >= MinLength

\* "if len(text) > 50:  # Minimum length check"
LongEnough(text) == StrLen(text) > MinLength

\* match.group(1).strip(), then re.sub(r'\s+', ' ', ...)
AbstractText(g) == Collapse(Strip(g))

\* the same, then re.split(...References...)[0]: conclusion and discussion
ConclusionText(g) == SplitReferences(Collapse(Strip(g)))

\* variant of FirstAbstract: the loop has no break, the last pattern that
\* matches with a long enough text wins
LastAbstract(ms) ==
    IF \E k \in 1..Len(ms) : ms[k].matched /\ LongEnough(AbstractText(ms[k].group))
    THEN CHOOSE k \in 1..Len(ms) :
            /\ ms[k].matched /\ LongEnough(AbstractText(ms[k].group))
            /\ \A j \in (k + 1)..Len(ms) : ~(ms[j].matched /\ LongEnough(AbstractText(ms[j].group)))
    ELSE 0

\* the for loop over abstract_patterns: the first pattern that matches and
\* whose text is long enough, 0 when the loop ends without a break
FirstAbstract(ms) ==
    IF \E k \in 1..Len(ms) : ms[k].matched /\ LongEnough(AbstractText(ms[k].group))
    THEN CHOOSE k \in 1..Len(ms) :
            /\ ms[k].matched /\ LongEnough(AbstractText(ms[k].group))
            /\ \A j \in 1..(k - 1) : ~(ms[j].matched /\ LongEnough(AbstractText(ms[j].group)))
    ELSE 0

\* the for loops over conclusion_patterns and over discussion_patterns
FirstConclusion(ms) ==
    IF \E k \in 1..Len(ms) : ms[k].matched /\ LongEnough(ConclusionText(ms[k].group))
    THEN CHOOSE k \in 1..Len(ms) :
            /\ ms[k].matched /\ LongEnough(ConclusionText(ms[k].group))
            /\ \A j \in 1..(k - 1) : ~(ms[j].matched /\ LongEnough(ConclusionText(ms[j].group)))
    ELSE 0

\* variant of TriesDiscussion: the fallback looks at whether a conclusion
\* heading matched, not at whether a conclusion was accepted
TriesDiscussionIfNoHeading(text, conclusion_found) ==
    \A k \in 1..Len(text.conclusion) : ~text.conclusion[k].matched

\* "if not conclusion_found:" : the discussion patterns are tried
TriesDiscussion(text, conclusion_found) == ~conclusion_found

\* the dict "sections" as returned: its keys are abstract and conclusion
Sections(a, c) == [abstract |-> a, conclusion |-> c]

\* the "Final validation" messages
ValidationPrints(sec) ==
    IF sec.abstract = NoneText /\ sec.conclusion = NoneText
    THEN <<"Warning: No sections found in document">>
    ELSE IF sec.abstract = NoneText THEN <<"Warning: No abstract found">>
    ELSE IF sec.conclusion = NoneText THEN <<"Warning: No conclusion found">>
    ELSE <<>>

\* variant of CaughtByExcept: the function has no handler
CaughtByExceptNothing(kind) == FALSE

\* "except Exception as e:" around the whole body: the errors of opening and
\* parsing the artifact and of reading its structure are caught
CaughtByExcept(kind) == kind = "unreadable"

\* variant of HasContent: blank content goes on to the patterns
HasContentAlways(text) == TRUE

\* "if not content.strip():" is false
HasContent(text) == text.kind # "no_content"

\* extract_sections(json_path): the dict returned, the messages printed and
\* whether the call ended with an exception instead of returning
ExtractRun(text) ==
    IF text.kind = "unreadable"
    THEN IF CaughtByExcept(text.kind)
         THEN [sections |-> Sections(NoneText, NoneText), prints |-> <<"Error processing">>,
               raised |-> FALSE]
         ELSE [sections |-> Sections(NoneText, NoneText), prints |-> <<>>, raised |-> TRUE]
    ELSE IF ~HasContent(text)
    THEN [sections |-> Sections(NoneText, NoneText), prints |-> <<"Warning: No content found">>,
          raised |-> FALSE]
    ELSE
        LET ka == FirstAbstract(text.abstract)
            kc == FirstConclusion(text.conclusion)
            conclusion_found == kc # 0
            kd == IF TriesDiscussion(text, conclusion_found)
                  THEN FirstConclusion(text.discussion) ELSE 0
            a  == IF ka # 0 THEN AbstractText(text.abstract[ka].group) ELSE NoneText
            c  == IF kc # 0 THEN ConclusionText(text.conclusion[kc].group)
                  ELSE IF kd # 0 THEN ConclusionText(text.discussion[kd].group)
                  ELSE NoneText
            pa == IF ka # 0 THEN <<"Found abstract">> ELSE <<>>
            pc_ == IF kc # 0 THEN <<"Found conclusion">>
                   ELSE IF kd # 0 THEN <<"Found discussion as conclusion">>
                   ELSE <<>>
        IN  [sections |-> Sections(a, c),
             prints   |-> pa \o pc_ \o ValidationPrints(Sections(a, c)),
             raised   |-> FALSE]

\* the value extract_sections returns
extract_sections(text) == ExtractRun(text).sections

----------------------------------------------------------------------------
(* The stages' shared files: data *)

\* the document ids the fetch stage can bring
DocIds == {"d1", "d2"}

\* the order in which "SELECT id FROM full_documents" returns them
DocOrder == <<"d1", "d2">>

\* a row of full_documents: the columns fetch writes (title stands for title,
\* authors and pdf_url) and the two columns extraction writes (NULL is NoneText)
Row(t, a, c) == [title |-> t, abstract |-> a, conclusion |-> c]

\* the captures the artifacts of the stage runs hold
AbstractCapture == << NL, W(30), NL, SP, SP, W(20), NL >>
ConclusionCapture == << W(60), NL, W(30) >>

\* the artifacts parse writes: one with an abstract and a conclusion, one with
\* a conclusion only, one in which no pattern finds anything, one that
\* cannot be read
StageTexts ==
    { TextOf(<<"abstract", 1>> :> AbstractCapture @@ <<"conclusion", 1>> :> ConclusionCapture),
      TextOf(<<"conclusion", 2>> :> ConclusionCapture),
      TextOf(<<>>),
      Special("unreadable") }

\* the values a section column can hold in a call of update_database_with_sections
SectionValues == {NoneText, AbstractText(AbstractCapture), ConclusionText(ConclusionCapture)}

\* the tables update_database_with_sections is called on: empty, one row, two rows
UpdateTables ==
    {EmptyDict}
        \cup { "d1" :> Row(t, a, c) : t \in {"t1", "t2"}, a \in SectionValues, c \in SectionValues }
        \cup { "d1" :> Row(t, a, c) @@ "d2" :> Row("t1", AbstractText(AbstractCapture), NoneText) :
                    t \in {"t1", "t2"}, a \in SectionValues, c \in SectionValues }

\* how the database answers one call of update_database_with_sections: "ok",
\* sqlite3.connect raises ("connect_error"), a statement before the commit
\* raises ("query_error"), the SELECT after the commit raises ("verify_error"),
\* the SELECT after the commit returns other values than the UPDATE set
\* ("mismatch")
UpdateOutcomes == {"ok", "connect_error", "query_error", "verify_error", "mismatch"}

----------------------------------------------------------------------------
(* fetch.py: save_to_db *)

\* variant of save_to_db: the table is emptied before the papers are inserted
save_to_db_fresh(d, papers, ok) ==
    IF ok
    THEN [id \in papers |-> Row("t1", NoneText, NoneText)]
    ELSE d

\* INSERT OR REPLACE INTO full_documents (id, title, authors, pdf_url): the row
\* of every paper is replaced by one whose other columns are NULL; an
\* sqlite3.Error before the commit leaves the table as it was
save_to_db(d, papers, ok) ==
    IF ok
    THEN [id \in (DOMAIN d) \cup papers |->
            IF id \in papers THEN Row("t1", NoneText, NoneText) ELSE d[id]]
    ELSE d

----------------------------------------------------------------------------
(* extract_regex.py: update_database_with_sections *)

\* variant of NeedsUpdate: the UPDATE is issued whatever the result holds
NeedsUpdateAlways(sections) == TRUE

\* "if update_abstract or update_conclusion:"
NeedsUpdate(sections) == sections.abstract # NoneText \/ sections.conclusion # NoneText

\* variant of Merge: both columns are set from the result
MergeOverwrite(row, sections) ==
    [row EXCEPT !.abstract = sections.abstract, !.conclusion = sections.conclusion]

\* the dynamic UPDATE: SET holds only the columns whose value is not None
Merge(row, sections) ==
    [row EXCEPT !.abstract = IF sections.abstract # NoneText
                             THEN sections.abstract ELSE row.abstract,
                !.conclusion = IF sections.conclusion # NoneText
                               THEN sections.conclusion ELSE row.conclusion]

\* "updated" before the re-read has assigned it
NoRow == Row("none", NoneText, NoneText)

\* "updated = c.fetchone()" after the commit: the row as the UPDATE left it,
\* or, on a mismatch, a row whose section columns hold something else
ReadBack(row, outcome) ==
    IF outcome = "mismatch" THEN [row EXCEPT !.abstract = NoneText, !.conclusion = NoneText]
    ELSE row

\* variant of Verify: both columns are compared with the result
VerifyBoth(updated, sections) ==
    updated.abstract = sections.abstract /\ updated.conclusion = sections.conclusion

\* "(not update_abstract or updated[0] == sections['abstract']) and
\*  (not update_conclusion or updated[1] == sections['conclusion'])"
Verify(updated, sections) ==
    /\ sections.abstract = NoneText \/ updated.abstract = sections.abstract
    /\ sections.conclusion = NoneText \/ updated.conclusion = sections.conclusion

\* variant of ReturnOf: the result of the comparison is not looked at
ReturnOfAlwaysTrue(verified) == "True"

\* "return True" after the success message, "return False" after the warning
ReturnOf(verified) == IF verified THEN "True" ELSE "False"

\* update_database_with_sections(id, sections) on the table d: the table
\* afterwards, what the call returns ("True", "False", or "raised" when
\* conn.close() in the finally block finds conn unbound), whether an
\* UPDATE was committed, whether the re-read was compared with what was sent,
\* the row re-read and whether it agreed;
\* nothing is executed after the commit but the SELECT, so the table stays as
\* the UPDATE left it
update_database_with_sections(d, id, sections, outcome) ==
    IF outcome = "connect_error"
    THEN [db |-> d, ret |-> "raised", wrote |-> FALSE, compared |-> FALSE,
          read |-> NoRow, verified |-> FALSE]
    ELSE IF outcome = "query_error"
    THEN [db |-> d, ret |-> "False", wrote |-> FALSE, compared |-> FALSE,
          read |-> NoRow, verified |-> FALSE]
    ELSE IF id \notin DOMAIN d
    THEN [db |-> d, ret |-> "False", wrote |-> FALSE, compared |-> FALSE,
          read |-> NoRow, verified |-> FALSE]
    ELSE IF ~NeedsUpdate(sections)
    THEN [db |-> d, ret |-> "False", wrote |-> FALSE, compared |-> FALSE,
          read |-> NoRow, verified |-> FALSE]
    ELSE LET merged == Merge(d[id], sections)
         IN  IF outcome = "verify_error"
             THEN [db |-> [d EXCEPT ![id] = merged], ret |-> "False", wrote |-> TRUE,
                   compared |-> FALSE, read |-> NoRow, verified |-> FALSE]
             ELSE LET updated  == ReadBack(merged, outcome)
                      verified == Verify(updated, sections)
                  IN  [db |-> [d EXCEPT ![id] = merged], ret |-> ReturnOf(verified),
                       wrote |-> TRUE, compared |-> TRUE, read |-> updated,
                       verified |-> verified]

----------------------------------------------------------------------------
(* extract_regex.py: main, data *)

\* "SELECT id FROM full_documents"
SelectIds(d) ==
    LET InTable(id) == id \in DOMAIN d
    IN  SelectSeq(DocOrder, InTable)

\* variant of InCache: nothing is ever taken as already processed
InCacheNever(existing, id) == FALSE

\* "if id in existing_sections:"
InCache(existing, id) == id \in DOMAIN existing

\* variant of CopyExisting: the run starts from an empty dict
CopyExistingEmpty(existing) == EmptyDict

\* "extracted_sections = existing_sections.copy()"
CopyExisting(existing) == existing

\* variant of HasSections: a result counts only with both sections
HasSectionsBoth(sections) == sections.abstract # NoneText /\ sections.conclusion # NoneText

\* "if sections['abstract'] or sections['conclusion']:"
HasSections(sections) == sections.abstract # NoneText \/ sections.conclusion # NoneText

----------------------------------------------------------------------------
(* parse_parallel.py: data *)

\* "for i in range(2)": the number of converter instances
PoolSize == 2

\* variant of WorkerOf: every PDF goes to the first instance
WorkerOfFirst(k, p) == 0

\* cycle(converters): the instance paired with the k-th PDF (0-based)
WorkerOf(k, p) == k % p

\* variant of ZipCycle: zip(input_paths, converters), which stops at the
\* shorter list
ZipNoCycle(n, p) ==
    [t \in 1..(IF n < p THEN n ELSE p) |-> [job |-> t - 1, worker |-> WorkerOf(t - 1, p)]]

\* "for pdf_path, (instance_id, converter) in zip(input_paths, cycle(converters))":
\* one coroutine per PDF, in the order of input_paths
ZipCycle(n, p) == [t \in 1..n |-> [job |-> t - 1, worker |-> WorkerOf(t - 1, p)]]

\* variant of OutputOf: the name of the output does not come from the PDF
OutputOfFixed(job) == 0

\* "json_path = out_path / f"{pdf_path.stem}.json"": the output file of the
\* job-th PDF; the PDFs are the "*.pdf" entries of one directory, written by
\* download.py as "<id>.pdf", so their names differ, and so do their stems
\* and the outputs named after them
OutputOf(job) == job

\* variant of OutputExists: the output is never found
OutputExistsNever(out) == FALSE

\* "if json_path.exists():"
OutputExists(out) == out # "absent"

\* variant of FailureEscapes: convert_pdf has no handler and gather is called
\* without return_exceptions, so the first exception ends the gather
FailureEscapesAlways(outcome) == outcome # "ok"

\* whether an exception of a conversion leaves convert_pdf: "except Exception"
\* turns it into the return value False
FailureEscapes(outcome) == FALSE

\* the number of tasks whose result is r
CountOf(results, r) == Cardinality({t \in DOMAIN results : results[t] = r})

\* the counts of the summary: successful is the number of results that are
\* True, failed the number that are False, skipped what is left
Counts(results) ==
    LET n_successful == CountOf(results, "True")
        n_failed     == CountOf(results, "False")
    IN  [successful |-> n_successful,
         failed     |-> n_failed,
         skipped    |-> Len(results) - n_successful - n_failed]

\* how a conversion in its thread ends
ConvertOutcomes == {"ok", "error"}

\* how the export of a converted document ends: written; open() failed;
\* open() succeeded and json.dump failed
ExportOutcomes == {"ok", "open_error", "dump_error"}

----------------------------------------------------------------------------
(* Initial state *)

Init ==
    /\ entry \in {"workflow_main", "workflow_api", "testing_run", "extract_sections",
                  "update_call", "stages", "parse_parallel", "download_pdf"}
    /\ files \in (IF entry \in {"workflow_main", "workflow_api", "testing_run"}
                  THEN SUBSET AllScripts ELSE {AllScripts})
    /\ wm = "none"
    /\ state = EmptyDict
    /\ pc = "idle"
    /\ start_from = None
    /\ steps = <<>>
    /\ i = 1
    /\ running = {}
    /\ invoked = <<>>
    /\ outcomes = <<>>
    /\ ret = "none"
    /\ log_error = <<>>
    /\ runs = 0
    /\ prev_state = EmptyDict
    /\ main_pc = "parse_args"
    /\ args = [start_from |-> None, show_summaries |-> FALSE]
    /\ exit_code = 0
    /\ rp_pc = "main"
    /\ rp_i = 1
    /\ rp_running = {}
    /\ rp_success = FALSE
    /\ rp_log = <<>>
    /\ rp_ret = "none"
    /\ rp_exit = 0
    /\ ex_text \in (IF entry = "extract_sections" THEN Texts ELSE {Special("no_content")})
    /\ ex_result = [called |-> FALSE, sections |-> Sections(NoneText, NoneText), prints |-> <<>>,
                    raised |-> FALSE]
    /\ db \in (IF entry = "update_call" THEN UpdateTables ELSE {EmptyDict})
    /\ conv = EmptyDict
    /\ sections_json = EmptyDict
    /\ st_pc = "idle"
    /\ stage_runs = 0
    /\ last_stage = "none"
    /\ existing_sections = EmptyDict
    /\ extracted_sections = EmptyDict
    /\ documents = <<>>
    /\ di = 1
    /\ successful_updates = 0
    /\ skipped = 0
    /\ failed = 0
    /\ ex_invoked = {}
    /\ ex_written = {}
    /\ ex_failed_ids = {}
    /\ ex_verified = {}
    /\ ex_mismatched = {}
    /\ ex_redo = {}
    /\ ex_db0 = EmptyDict
    /\ ex_clean = TRUE
    /\ in_succession = FALSE
    /\ up_result = [called |-> FALSE, id |-> "d1", sections |-> Sections(NoneText, NoneText),
                    before |-> EmptyDict, ret |-> "none", wrote |-> FALSE,
                    compared |-> FALSE, read |-> NoRow, verified |-> FALSE]
    /\ pp_n \in (IF entry = "parse_parallel" THEN 0..MaxJobs ELSE {0})
    /\ pp_out \in [0..(pp_n - 1) -> {"absent", "old"}]
    /\ pp_out0 = pp_out
    /\ pp_pc = "start"
    /\ pp_tasks = <<>>
    /\ pp_state = <<>>
    /\ pp_results = <<>>
    /\ pp_counts = [successful |-> 0, failed |-> 0, skipped |-> 0]
    /\ pp_calls = <<>>
    /\ pp_skipped = {}
    /\ pp_access = [f \in 0..(pp_n - 1) |-> [checked |-> {}, written |-> {}]]
    /\ dl_pc = "attempting"
    /\ dl_attempt = 0
    /\ dl_ret = "none"
    /\ dl_file \in (IF entry = "download_pdf" THEN {"absent", "written"} ELSE {"absent"})
    /\ dl_log = <<>>

----------------------------------------------------------------------------
(* workflow.py: WorkflowManager *)

\* variant of Aborts: a failed step is logged and the loop goes on
AbortsNever(success) == FALSE

\* "if not step_func():" : a step whose function returns False ends the call
Aborts(success) == ~success

\* variant of RecordStart: the assignment is missing
RecordStartForgotten(d, name) == d

\* self.state[step_name] = False, before the step's function is called
RecordStart(d, name) == DictSet(d, name, FALSE)

\* variant of RecordSuccess: the assignment is missing
RecordSuccessForgotten(d, name) == d

\* self.state[step_name] = True, after the step's function returned True
RecordSuccess(d, name) == DictSet(d, name, TRUE)

\* WorkflowManager.get_status
get_status == state

\* WorkflowManager.__init__, as called by main (inside its try) or by a library user
Construct ==
    /\ wm = "none"
    /\ \/ entry = "workflow_api"
       \/ entry = "workflow_main" /\ main_pc = "construct"
    /\ state' = EmptyDict
    /\ IF VerifyRequiredFiles(files) # {}
       THEN /\ wm' = "raised"
            /\ IF entry = "workflow_main"
               THEN main_pc' = "exited" /\ exit_code' = 1
               ELSE UNCHANGED <<main_pc, exit_code>>
       ELSE /\ wm' = "ready"
            /\ main_pc' = IF entry = "workflow_main" THEN "run" ELSE main_pc
            /\ UNCHANGED exit_code
    /\ UNCHANGED <<entry, files, args>>
    /\ UNCHANGED wfRun
    /\ UNCHANGED rpVars
    /\ UNCHANGED exVars
    /\ UNCHANGED stageVars
    /\ UNCHANGED <<ppVars, dlVars>>

\* run_full_workflow, from its entry to the first iteration of the loop (or to
\* "return False" for an invalid starting point)
RunBegin(sf) ==
    /\ wm = "ready"
    /\ pc \in {"idle", "returned"}
    /\ start_from' = sf
    /\ runs' = runs + 1
    /\ prev_state' = state
    /\ invoked' = <<>>
    /\ outcomes' = <<>>
    /\ i' = 1
    /\ IF Truthy(sf) /\ StartIdx(sf) = 0
       THEN /\ log_error' = <<"invalid_start", sf>>
            /\ steps' = StepNames
            /\ ret' = "False"
            /\ pc' = "returned"
       ELSE /\ log_error' = <<>>
            /\ steps' = IF Truthy(sf) THEN Truncate(StartIdx(sf)) ELSE StepNames
            /\ ret' = "none"
            /\ pc' = "loop"
    /\ UNCHANGED <<wm, state, running>>

\* a library user calls run_full_workflow on the object
ApiRun ==
    /\ entry = "workflow_api"
    /\ runs < MaxRuns
    /\ \E sf \in StartInputs : RunBegin(sf)
    /\ UNCHANGED <<entry, files>>
    /\ UNCHANGED wfMain
    /\ UNCHANGED rpVars
    /\ UNCHANGED exVars
    /\ UNCHANGED stageVars
    /\ UNCHANGED <<ppVars, dlVars>>

\* the loop body up to the call of step_func
StepStart ==
    /\ pc = "loop"
    /\ i <= Len(steps)
    /\ state' = RecordStart(state, steps[i])
    /\ running' = running \cup {steps[i]}
    /\ invoked' = Append(invoked, steps[i])
    /\ pc' = "in_step"
    /\ UNCHANGED <<entry, files, wm, start_from, steps, i, outcomes, ret, log_error, runs, prev_state>>
    /\ UNCHANGED wfMain
    /\ UNCHANGED rpVars
    /\ UNCHANGED exVars
    /\ UNCHANGED stageVars
    /\ UNCHANGED <<ppVars, dlVars>>

\* step_func returns (os.system has returned) and the loop body finishes
StepFinish(success) ==
    /\ pc = "in_step"
    /\ running' = running \ {steps[i]}
    /\ outcomes' = Append(outcomes, <<steps[i], success>>)
    /\ IF Aborts(success)
       THEN /\ log_error' = <<"failed_at_step", steps[i]>>
            /\ ret' = "False"
            /\ pc' = "returned"
            /\ UNCHANGED <<state, i>>
       ELSE /\ state' = RecordSuccess(state, steps[i])
            /\ i' = i + 1
            /\ pc' = "loop"
            /\ UNCHANGED <<ret, log_error>>
    /\ UNCHANGED <<entry, files, wm, start_from, steps, invoked, runs, prev_state>>
    /\ UNCHANGED wfMain
    /\ UNCHANGED rpVars
    /\ UNCHANGED exVars
    /\ UNCHANGED stageVars
    /\ UNCHANGED <<ppVars, dlVars>>

\* the loop is exhausted: summary and "return True"
RunEnd ==
    /\ pc = "loop"
    /\ i > Len(steps)
    /\ ret' = "True"
    /\ pc' = "returned"
    /\ UNCHANGED <<entry, files, wm, state, start_from, steps, i, running, invoked,
                   outcomes, log_error, runs, prev_state>>
    /\ UNCHANGED wfMain
    /\ UNCHANGED rpVars
    /\ UNCHANGED exVars
    /\ UNCHANGED stageVars
    /\ UNCHANGED <<ppVars, dlVars>>

----------------------------------------------------------------------------
(* workflow.py: main *)

\* variant of ExitStatus: main logs the failure and ends normally
ExitStatusAlwaysZero(success, show, shown) == 0

\* exit status of main once run_full_workflow has returned: exit(1) on failure
\* of the run or of the requested report, otherwise the normal end of the process
ExitStatus(success, show, shown) ==
    IF ~success THEN 1
    ELSE IF show /\ ~shown THEN 1
    ELSE 0

\* argparse: a value of --start-from outside the choices ends the process with status 2
MainParseArgs ==
    /\ entry = "workflow_main"
    /\ main_pc = "parse_args"
    /\ \E sf \in StartInputs, show \in BOOLEAN :
        IF sf \in Choices \cup {None}
        THEN /\ args' = [start_from |-> sf, show_summaries |-> show]
             /\ main_pc' = "construct"
             /\ UNCHANGED exit_code
        ELSE /\ main_pc' = "exited"
             /\ exit_code' = 2
             /\ UNCHANGED args
    /\ UNCHANGED <<entry, files>>
    /\ UNCHANGED wfObj
    /\ UNCHANGED wfRun
    /\ UNCHANGED rpVars
    /\ UNCHANGED exVars
    /\ UNCHANGED stageVars
    /\ UNCHANGED <<ppVars, dlVars>>

\* success = workflow.run_full_workflow(start_from=args.start_from)
MainRun ==
    /\ entry = "workflow_main"
    /\ main_pc = "run"
    /\ RunBegin(args.start_from)
    /\ main_pc' = "after_run"
    /\ UNCHANGED <<entry, files, args, exit_code>>
    /\ UNCHANGED rpVars
    /\ UNCHANGED exVars
    /\ UNCHANGED stageVars
    /\ UNCHANGED <<ppVars, dlVars>>

\* the rest of main: exit(1) on failure, the optional report, the end
MainAfterRun ==
    /\ entry = "workflow_main"
    /\ main_pc = "after_run"
    /\ pc = "returned"
    /\ \E shown \in BOOLEAN :
        exit_code' = ExitStatus(ret = "True", args.show_summaries, shown)
    /\ main_pc' = "exited"
    /\ UNCHANGED <<entry, files, args>>
    /\ UNCHANGED wfObj
    /\ UNCHANGED wfRun
    /\ UNCHANGED rpVars
    /\ UNCHANGED exVars
    /\ UNCHANGED stageVars
    /\ UNCHANGED <<ppVars, dlVars>>

----------------------------------------------------------------------------
(* testing/run.py: run_pipeline and main *)

\* "if not success and required:" : the pipeline stops at this script
StopsPipeline(success, required) == ~success /\ required

\* variant of SleepsAfter: the delay is attached to the wrong script
SleepsAfterSummarise(script, success) == script = "summarise.py" /\ success

\* "if script == "extract_regex.py" and success:" : time.sleep(10) follows
SleepsAfter(script, success) == script = "extract_regex.py" /\ success

\* "if script == "summarise.py" and success:" : dump_summaries follows
DumpsAfter(script, success) == script = "summarise.py" /\ success

\* "if required: return False" in the handler of a failed dump_summaries
DumpFailureStops(required) == required

\* outcomes of a snapshot export: done, the import of testing.fulldocs_dump
\* fails, dump_*() raises
DumpOutcomes == {"ok", "import_error", "dump_error"}

\* main: clean_all() decides whether run_pipeline is called at all
RpMain ==
    /\ entry = "testing_run"
    /\ rp_pc = "main"
    /\ \E cleaned \in BOOLEAN :
        IF cleaned
        THEN rp_pc' = "loop" /\ rp_log' = Append(rp_log, <<"clean_all", "ok">>)
        ELSE rp_pc' = "skipped" /\ rp_log' = Append(rp_log, <<"clean_all", "error">>)
    /\ UNCHANGED <<rp_i, rp_running, rp_success, rp_ret, rp_exit>>
    /\ UNCHANGED <<entry, files>>
    /\ UNCHANGED wfObj
    /\ UNCHANGED wfRun
    /\ UNCHANGED wfMain
    /\ UNCHANGED exVars
    /\ UNCHANGED stageVars
    /\ UNCHANGED <<ppVars, dlVars>>

\* the for loop takes the next script and run_script starts its subprocess
RpScriptStart ==
    /\ rp_pc = "loop"
    /\ rp_i <= Len(pipeline)
    /\ rp_running' = rp_running \cup {Script(rp_i)}
    /\ rp_log' = Append(rp_log, <<"run", Script(rp_i)>>)
    /\ rp_pc' = "script"
    /\ UNCHANGED <<rp_i, rp_success, rp_ret, rp_exit>>
    /\ UNCHANGED <<entry, files>>
    /\ UNCHANGED wfObj
    /\ UNCHANGED wfRun
    /\ UNCHANGED wfMain
    /\ UNCHANGED exVars
    /\ UNCHANGED stageVars
    /\ UNCHANGED <<ppVars, dlVars>>

\* where the iteration goes once the script's own outcome is handled
AfterScript(script, success) ==
    IF SleepsAfter(script, success) THEN "sleep"
    ELSE IF DumpsAfter(script, success) THEN "dump_summaries"
    ELSE "loop"

\* run_script returns and the iteration handles the outcome
RpScriptFinish(success) ==
    /\ rp_pc = "script"
    /\ rp_running' = rp_running \ {Script(rp_i)}
    /\ rp_success' = success
    /\ IF StopsPipeline(success, Required(rp_i))
       THEN /\ rp_log' = rp_log \o << <<IF success THEN "ok" ELSE "failed", Script(rp_i)>>,
                                      <<"stopped", Script(rp_i)>> >>
            /\ rp_ret' = "False"
            /\ rp_pc' = "done"
            /\ UNCHANGED rp_i
       ELSE /\ rp_log' = Append(rp_log, <<IF success THEN "ok" ELSE "failed", Script(rp_i)>>)
            /\ rp_pc' = AfterScript(Script(rp_i), success)
            /\ rp_i' = IF AfterScript(Script(rp_i), success) = "loop" THEN rp_i + 1 ELSE rp_i
            /\ UNCHANGED rp_ret
    /\ UNCHANGED rp_exit
    /\ UNCHANGED <<entry, files>>
    /\ UNCHANGED wfObj
    /\ UNCHANGED wfRun
    /\ UNCHANGED wfMain
    /\ UNCHANGED exVars
    /\ UNCHANGED stageVars
    /\ UNCHANGED <<ppVars, dlVars>>

\* time.sleep(10) returns
RpSleep ==
    /\ rp_pc = "sleep"
    /\ rp_log' = Append(rp_log, <<"sleep", Script(rp_i)>>)
    /\ IF DumpsAfter(Script(rp_i), rp_success)
       THEN rp_pc' = "dump_summaries" /\ UNCHANGED rp_i
       ELSE rp_pc' = "loop" /\ rp_i' = rp_i + 1
    /\ UNCHANGED <<rp_running, rp_success, rp_ret, rp_exit>>
    /\ UNCHANGED <<entry, files>>
    /\ UNCHANGED wfObj
    /\ UNCHANGED wfRun
    /\ UNCHANGED wfMain
    /\ UNCHANGED exVars
    /\ UNCHANGED stageVars
    /\ UNCHANGED <<ppVars, dlVars>>

\* the export after summarise.py: the import is outside the try, the call inside
RpDumpSummaries(outcome) ==
    /\ rp_pc = "dump_summaries"
    /\ rp_log' = Append(rp_log, <<"dump_summaries", outcome>>)
    /\ CASE outcome = "ok" ->
              rp_pc' = "loop" /\ rp_i' = rp_i + 1 /\ UNCHANGED rp_ret
         [] outcome = "import_error" ->
              rp_pc' = "done" /\ rp_ret' = "raised" /\ UNCHANGED rp_i
         [] outcome = "dump_error" ->
              IF DumpFailureStops(Required(rp_i))
              THEN rp_pc' = "done" /\ rp_ret' = "False" /\ UNCHANGED rp_i
              ELSE rp_pc' = "loop" /\ rp_i' = rp_i + 1 /\ UNCHANGED rp_ret
    /\ UNCHANGED <<rp_running, rp_success, rp_exit>>
    /\ UNCHANGED <<entry, files>>
    /\ UNCHANGED wfObj
    /\ UNCHANGED wfRun
    /\ UNCHANGED wfMain
    /\ UNCHANGED exVars
    /\ UNCHANGED stageVars
    /\ UNCHANGED <<ppVars, dlVars>>

\* the loop is exhausted: the export at the end (import and call inside the
\* try), then "return True"
RpFinalDump(outcome) ==
    /\ rp_pc = "loop"
    /\ rp_i > Len(pipeline)
    /\ rp_log' = Append(rp_log, <<"dump_full_documents", outcome>>)
    /\ rp_ret' = "True"
    /\ rp_pc' = "done"
    /\ UNCHANGED <<rp_i, rp_running, rp_success, rp_exit>>
    /\ UNCHANGED <<entry, files>>
    /\ UNCHANGED wfObj
    /\ UNCHANGED wfRun
    /\ UNCHANGED wfMain
    /\ UNCHANGED exVars
    /\ UNCHANGED stageVars
    /\ UNCHANGED <<ppVars, dlVars>>

----------------------------------------------------------------------------
(* extract_regex.py: a call of extract_sections *)

ExtractCall ==
    /\ entry = "extract_sections"
    /\ ~ex_result.called
    /\ ex_result' = [called   |-> TRUE,
                     sections |-> extract_sections(ex_text),
                     prints   |-> ExtractRun(ex_text).prints,
                     raised   |-> ExtractRun(ex_text).raised]
    /\ UNCHANGED <<entry, files, ex_text>>
    /\ UNCHANGED wfObj
    /\ UNCHANGED wfRun
    /\ UNCHANGED wfMain
    /\ UNCHANGED rpVars
    /\ UNCHANGED stageVars
    /\ UNCHANGED <<ppVars, dlVars>>

----------------------------------------------------------------------------
(* extract_regex.py: a call of update_database_with_sections *)

UpdateCall(id, sections, outcome) ==
    /\ entry = "update_call"
    /\ ~up_result.called
    /\ LET r == update_database_with_sections(db, id, sections, outcome)
       IN  /\ db' = r.db
           /\ up_result' = [called |-> TRUE, id |-> id, sections |-> sections,
                            before |-> db, ret |-> r.ret, wrote |-> r.wrote,
                            compared |-> r.compared, read |-> r.read,
                            verified |-> r.verified]
    /\ UNCHANGED <<entry, files, conv, sections_json>>
    /\ UNCHANGED <<wfObj, wfRun, wfMain, rpVars, exVars, stVars, mainVars>>
    /\ UNCHANGED <<ppVars, dlVars>>

----------------------------------------------------------------------------
(* The stages, run one after another *)

\* every stage is a process of its own: when another script runs, the
\* names of an earlier run of extract_regex.py main are gone
MainEnded ==
    /\ existing_sections' = EmptyDict
    /\ extracted_sections' = EmptyDict
    /\ documents' = <<>>
    /\ di' = 1
    /\ successful_updates' = 0
    /\ skipped' = 0
    /\ failed' = 0
    /\ ex_invoked' = {}
    /\ ex_written' = {}
    /\ ex_failed_ids' = {}
    /\ ex_verified' = {}
    /\ ex_mismatched' = {}
    /\ ex_redo' = {}
    /\ ex_db0' = EmptyDict
    /\ ex_clean' = TRUE
    /\ in_succession' = FALSE

StageCanStart ==
    /\ entry = "stages"
    /\ st_pc = "idle"
    /\ stage_runs < MaxStageRuns

\* fetch.py: the papers found are saved
FetchStage(papers, ok) ==
    /\ StageCanStart
    /\ db' = save_to_db(db, papers, ok)
    /\ stage_runs' = stage_runs + 1
    /\ last_stage' = "fetch"
    /\ UNCHANGED <<entry, files, conv, sections_json, st_pc, up_result>>
    /\ MainEnded
    /\ UNCHANGED <<wfObj, wfRun, wfMain, rpVars, exVars>>
    /\ UNCHANGED <<ppVars, dlVars>>

\* download.py download_pdfs: full_documents is only read (SELECT id, pdf_url),
\* the PDFs are written to pdfs/
DownloadStage ==
    /\ StageCanStart
    /\ stage_runs' = stage_runs + 1
    /\ last_stage' = "download"
    /\ UNCHANGED <<entry, files, db, conv, sections_json, st_pc, up_result>>
    /\ MainEnded
    /\ UNCHANGED <<wfObj, wfRun, wfMain, rpVars, exVars>>
    /\ UNCHANGED <<ppVars, dlVars>>

\* summarise.py main: full_documents is only read (SELECT id, abstract,
\* conclusion), the summaries go to the table summaries
SummariseStage ==
    /\ StageCanStart
    /\ stage_runs' = stage_runs + 1
    /\ last_stage' = "summarise"
    /\ UNCHANGED <<entry, files, db, conv, sections_json, st_pc, up_result>>
    /\ MainEnded
    /\ UNCHANGED <<wfObj, wfRun, wfMain, rpVars, exVars>>
    /\ UNCHANGED <<ppVars, dlVars>>

\* parse.py convert_pdfs: the PDFs present (of documents fetched before) are
\* converted, each artifact written over the one of the same name
ParseStage(artifacts) ==
    /\ StageCanStart
    /\ DOMAIN artifacts \subseteq DOMAIN db
    /\ conv' = [id \in (DOMAIN conv) \cup (DOMAIN artifacts) |->
                    IF id \in DOMAIN artifacts THEN artifacts[id] ELSE conv[id]]
    /\ stage_runs' = stage_runs + 1
    /\ last_stage' = "parse"
    /\ UNCHANGED <<entry, files, db, sections_json, st_pc, up_result>>
    /\ MainEnded
    /\ UNCHANGED <<wfObj, wfRun, wfMain, rpVars, exVars>>
    /\ UNCHANGED <<ppVars, dlVars>>

\* workflow.py clear_workspace: clear_db.py empties the tables, then every
\* *.json of conversions/ is deleted; when clear_db.py fails nothing is deleted
ClearStage(ok) ==
    /\ StageCanStart
    /\ IF ok
       THEN /\ db' = EmptyDict
            /\ conv' = EmptyDict
            /\ sections_json' = EmptyDict
       ELSE UNCHANGED <<db, conv, sections_json>>
    /\ stage_runs' = stage_runs + 1
    /\ last_stage' = "clear"
    /\ UNCHANGED <<entry, files, st_pc, up_result>>
    /\ MainEnded
    /\ UNCHANGED <<wfObj, wfRun, wfMain, rpVars, exVars>>
    /\ UNCHANGED <<ppVars, dlVars>>

\* extract_regex.py main, up to the for loop: the sections file and the ids
\* are read; with no document the run returns at once
ExBegin ==
    /\ StageCanStart
    /\ stage_runs' = stage_runs + 1
    /\ existing_sections' = sections_json
    /\ documents' = SelectIds(db)
    /\ extracted_sections' = CopyExisting(sections_json)
    /\ di' = 1
    /\ successful_updates' = 0
    /\ skipped' = 0
    /\ failed' = 0
    /\ ex_invoked' = {}
    /\ ex_written' = {}
    /\ ex_failed_ids' = {}
    /\ ex_verified' = {}
    /\ ex_mismatched' = {}
    /\ ex_redo' = IF last_stage = "extract_interrupted" THEN ex_written ELSE {}
    /\ ex_db0' = db
    /\ ex_clean' = TRUE
    /\ in_succession' = (last_stage = "extract")
    /\ IF SelectIds(db) = <<>>
       THEN st_pc' = "idle" /\ last_stage' = "extract"
       ELSE st_pc' = "ex_loop" /\ UNCHANGED last_stage
    /\ UNCHANGED <<entry, files, db, conv, sections_json, up_result>>
    /\ UNCHANGED <<wfObj, wfRun, wfMain, rpVars, exVars>>
    /\ UNCHANGED <<ppVars, dlVars>>

\* variant of CountRaised: the handler of the loop body does not count
CountRaisedNot(n) == n

\* "except Exception as e: ... failed += 1" of the loop body: a call that
\* raised makes its document a failed one
CountRaised(n) == n + 1

\* one iteration of "for id, in documents:"
ExDoc(outcome) ==
    /\ entry = "stages"
    /\ st_pc = "ex_loop"
    /\ di <= Len(documents)
    /\ LET id == documents[di]
       IN  IF id \notin DOMAIN conv
           THEN \* "JSON file not found"
                /\ failed' = failed + 1
                /\ ex_failed_ids' = ex_failed_ids \cup {id}
                /\ UNCHANGED <<db, extracted_sections, successful_updates, skipped,
                               ex_invoked, ex_written, ex_verified, ex_mismatched,
                               ex_clean>>
           ELSE IF InCache(existing_sections, id)
           THEN \* "Skipping - already processed"
                /\ skipped' = skipped + 1
                /\ UNCHANGED <<db, extracted_sections, successful_updates, failed,
                               ex_invoked, ex_written, ex_failed_ids, ex_verified,
                               ex_mismatched, ex_clean>>
           ELSE LET sections == extract_sections(conv[id])
                    raised   == ExtractRun(conv[id]).raised
                IN  /\ ex_invoked' = ex_invoked \cup {id}
                    /\ IF ~raised /\ HasSections(sections)
                       THEN LET r == update_database_with_sections(db, id, sections, outcome)
                            IN  /\ db' = r.db
                                /\ ex_written' = IF r.wrote THEN ex_written \cup {id}
                                                 ELSE ex_written
                                /\ ex_verified' = IF r.verified THEN ex_verified \cup {id}
                                                  ELSE ex_verified
                                /\ ex_mismatched' = IF r.compared /\ ~r.verified
                                                    THEN ex_mismatched \cup {id}
                                                    ELSE ex_mismatched
                                /\ ex_clean' = (ex_clean /\ r.ret = "True")
                                /\ IF r.ret = "True"
                                   THEN /\ extracted_sections' =
                                                DictSet(extracted_sections, id, sections)
                                        /\ successful_updates' = successful_updates + 1
                                        /\ UNCHANGED <<failed, ex_failed_ids>>
                                   ELSE /\ failed' = IF r.ret = "raised" THEN CountRaised(failed)
                                                   ELSE failed + 1
                                        /\ ex_failed_ids' = ex_failed_ids \cup {id}
                                        /\ UNCHANGED <<extracted_sections, successful_updates>>
                                /\ UNCHANGED skipped
                       ELSE \* "No sections found", or "except Exception" of the loop body
                            /\ failed' = IF raised THEN CountRaised(failed) ELSE failed + 1
                            /\ ex_failed_ids' = ex_failed_ids \cup {id}
                            /\ UNCHANGED <<db, extracted_sections, successful_updates, skipped,
                                           ex_written, ex_verified, ex_mismatched, ex_clean>>
    /\ di' = di + 1
    /\ UNCHANGED <<entry, files, conv, sections_json, up_result>>
    /\ UNCHANGED <<existing_sections, documents, ex_db0, in_succession, ex_redo>>
    /\ UNCHANGED <<wfObj, wfRun, wfMain, rpVars, exVars, stVars>>
    /\ UNCHANGED <<ppVars, dlVars>>

\* after the loop: the summary, then extracted_sections is written to the
\* sections file; when the file cannot be opened the exception is re-raised
ExSave(ok) ==
    /\ entry = "stages"
    /\ st_pc = "ex_loop"
    /\ di > Len(documents)
    /\ sections_json' = IF ok THEN extracted_sections ELSE sections_json
    /\ ex_clean' = (ex_clean /\ ok)
    /\ st_pc' = "idle"
    /\ last_stage' = IF ok THEN "extract" ELSE "extract_raised"
    /\ UNCHANGED <<entry, files, db, conv, stage_runs, up_result>>
    /\ UNCHANGED <<existing_sections, extracted_sections, documents, di, successful_updates,
                   skipped, failed, ex_invoked, ex_written, ex_failed_ids, ex_verified,
                   ex_mismatched, ex_redo, ex_db0,
                   in_succession>>
    /\ UNCHANGED <<wfObj, wfRun, wfMain, rpVars, exVars>>
    /\ UNCHANGED <<ppVars, dlVars>>

\* variant of OnAbort: the progress made is saved when the run is cut short
OnAbortSave(file, extracted) == extracted

\* the sections file when main is cut short: "except Exception" of main
\* prints and re-raises, and nothing but the statement after the loop writes
\* the file
OnAbort(file, extracted) == file

\* main is cut short between two documents, or after the last one before
\* the file is opened: a KeyboardInterrupt or the end of the process, which
\* "except Exception" does not catch, or an exception outside the try of the
\* loop body, which the handler of main re-raises
ExAbort ==
    /\ entry = "stages"
    /\ st_pc = "ex_loop"
    /\ sections_json' = OnAbort(sections_json, extracted_sections)
    /\ ex_clean' = FALSE
    /\ st_pc' = "idle"
    /\ last_stage' = "extract_interrupted"
    /\ UNCHANGED <<entry, files, db, conv, stage_runs, up_result>>
    /\ UNCHANGED <<existing_sections, extracted_sections, documents, di, successful_updates,
                   skipped, failed, ex_invoked, ex_written, ex_failed_ids, ex_verified,
                   ex_mismatched, ex_redo, ex_db0, in_succession>>
    /\ UNCHANGED <<wfObj, wfRun, wfMain, rpVars, exVars>>
    /\ UNCHANGED <<ppVars, dlVars>>

----------------------------------------------------------------------------
(* parse_parallel.py: convert_pdfs_parallel and convert_pdf *)

ppRest == <<entry, files, wfObj, wfRun, wfMain, rpVars, exVars, stageVars, pp_out0, dlVars>>

\* convert_pdfs_parallel up to the gather: the PDFs are listed, the converters
\* and the coroutines created; with no PDF the function returns
PpBegin ==
    /\ entry = "parse_parallel"
    /\ pp_pc = "start"
    /\ IF pp_n = 0
       THEN /\ pp_pc' = "returned"
            /\ UNCHANGED <<pp_tasks, pp_state, pp_results, pp_calls>>
       ELSE /\ pp_pc' = "gathering"
            /\ pp_tasks' = ZipCycle(pp_n, PoolSize)
            /\ pp_state' = [t \in DOMAIN ZipCycle(pp_n, PoolSize) |-> "created"]
            /\ pp_results' = [t \in DOMAIN ZipCycle(pp_n, PoolSize) |-> "none"]
            /\ pp_calls' = [t \in DOMAIN ZipCycle(pp_n, PoolSize) |-> 0]
    /\ UNCHANGED <<pp_n, pp_out, pp_counts, pp_skipped, pp_access>>
    /\ UNCHANGED ppRest

\* the first step of the coroutine of task t, up to its await; the event
\* loop runs the first steps in the order the tasks were created
PpTaskStart(t) ==
    /\ entry = "parse_parallel"
    /\ pp_pc = "gathering"
    /\ t \in DOMAIN pp_tasks
    /\ pp_state[t] = "created"
    /\ \A u \in 1..(t - 1) : pp_state[u] # "created"
    /\ pp_access' = [pp_access EXCEPT ![OutputOf(pp_tasks[t].job)].checked = @ \cup {t}]
    /\ IF OutputExists(pp_out[OutputOf(pp_tasks[t].job)])
       THEN \* "skipping - output already exists": return True
            /\ pp_state' = [pp_state EXCEPT ![t] = "done"]
            /\ pp_results' = [pp_results EXCEPT ![t] = "True"]
            /\ pp_skipped' = pp_skipped \cup {t}
            /\ UNCHANGED pp_calls
       ELSE \* loop.run_in_executor(pool, lambda: converter.convert(pdf_path))
            /\ pp_state' = [pp_state EXCEPT ![t] = "converting"]
            /\ pp_calls' = [pp_calls EXCEPT ![t] = @ + 1]
            /\ UNCHANGED <<pp_results, pp_skipped>>
    /\ UNCHANGED <<pp_n, pp_out, pp_pc, pp_tasks, pp_counts>>
    /\ UNCHANGED ppRest

\* the thread of task t ends its converter.convert
PpConvertEnd(t, outcome) ==
    /\ entry = "parse_parallel"
    /\ pp_pc = "gathering"
    /\ t \in DOMAIN pp_tasks
    /\ pp_state[t] = "converting"
    /\ pp_state' = [pp_state EXCEPT ![t] = IF outcome = "ok" THEN "converted"
                                          ELSE "convert_raised"]
    /\ UNCHANGED <<pp_n, pp_out, pp_pc, pp_tasks, pp_results, pp_counts, pp_calls, pp_skipped,
                   pp_access>>
    /\ UNCHANGED ppRest

\* the coroutine of task t goes on after its await, once every first step has
\* run: the export and "return True", or the handler and "return False"
PpTaskResume(t, export) ==
    /\ entry = "parse_parallel"
    /\ pp_pc = "gathering"
    /\ t \in DOMAIN pp_tasks
    /\ pp_state[t] \in {"converted", "convert_raised"}
    /\ \A u \in DOMAIN pp_tasks : pp_state[u] # "created"
    /\ LET json_path == OutputOf(pp_tasks[t].job)
           outcome == IF pp_state[t] = "convert_raised" THEN "error"
                      ELSE IF export = "ok" THEN "ok" ELSE "error"
           opened  == ~(pp_state[t] = "convert_raised" \/ export = "open_error")
       IN  /\ pp_out' = IF opened
                        THEN [pp_out EXCEPT ![json_path] = IF export = "ok" THEN "new"
                                                           ELSE "partial"]
                        ELSE pp_out
           /\ pp_access' = IF opened
                           THEN [pp_access EXCEPT ![json_path].written = @ \cup {t}]
                           ELSE pp_access
           /\ pp_state' = [pp_state EXCEPT ![t] = "done"]
           /\ IF FailureEscapes(outcome)
              THEN pp_pc' = "raised" /\ UNCHANGED pp_results
              ELSE /\ pp_results' = [pp_results EXCEPT ![t] = IF outcome = "ok" THEN "True"
                                                              ELSE "False"]
                   /\ UNCHANGED pp_pc
    /\ UNCHANGED <<pp_n, pp_tasks, pp_counts, pp_calls, pp_skipped>>
    /\ UNCHANGED ppRest

\* asyncio.gather returns when every coroutine has returned; the summary
PpSettle ==
    /\ entry = "parse_parallel"
    /\ pp_pc = "gathering"
    /\ \A t \in DOMAIN pp_tasks : pp_state[t] = "done"
    /\ pp_counts' = Counts(pp_results)
    /\ pp_pc' = "settled"
    /\ UNCHANGED <<pp_n, pp_out, pp_tasks, pp_state, pp_results, pp_calls, pp_skipped,
                   pp_access>>
    /\ UNCHANGED ppRest


----------------------------------------------------------------------------
(* test_relevance/download.py: download_pdf *)

\* "max_retries = 3"
max_retries == 3

\* "retry_delay = 2  # seconds"
retry_delay == 2

\* what "except requests.RequestException" catches: the request fails to
\* connect, times out (timeout=30), or raise_for_status finds an error status
RequestErrors == {"connection_error", "timeout", "http_error"}

\* how one pass of the try block ends: the file is written, a
\* RequestException is raised, or open or write raises an OSError, which no
\* handler of the function catches, before or after the file was truncated
AttemptOutcomes == {"ok"} \cup RequestErrors \cup {"open_error", "write_error"}

\* variant of RetriesAfter: every failure is followed by a sleep
RetriesAfterAny(attempt) == TRUE

\* "if attempt < max_retries - 1:"
RetriesAfter(attempt) == attempt < max_retries - 1

dlRest == <<entry, files, wfObj, wfRun, wfMain, rpVars, exVars, stageVars, ppVars>>

\* one pass of the body of "for attempt in range(max_retries):"
DlAttempt(outcome) ==
    /\ entry = "download_pdf"
    /\ dl_pc = "attempting"
    /\ dl_log' = Append(dl_log, <<"attempt", outcome>>)
    /\ IF outcome = "ok"
       THEN \* the file is written, "return True"
            /\ dl_file' = "written"
            /\ dl_ret' = "True"
            /\ dl_pc' = "returned"
       ELSE IF outcome \in RequestErrors
       THEN /\ IF RetriesAfter(dl_attempt)
               THEN dl_pc' = "sleeping" /\ UNCHANGED dl_ret
               ELSE \* "Failed to download", "return False"
                    dl_pc' = "returned" /\ dl_ret' = "False"
            /\ UNCHANGED dl_file
       ELSE \* the OSError leaves the function
            /\ dl_file' = IF outcome = "write_error" THEN "partial" ELSE dl_file
            /\ dl_pc' = "raised"
            /\ UNCHANGED dl_ret
    /\ UNCHANGED dl_attempt
    /\ UNCHANGED dlRest

\* "time.sleep(retry_delay)" ends and the loop takes its next value; when
\* range(max_retries) is used up the function ends without a return statement
DlSleep ==
    /\ entry = "download_pdf"
    /\ dl_pc = "sleeping"
    /\ dl_log' = Append(dl_log, <<"sleep", retry_delay>>)
    /\ dl_attempt' = dl_attempt + 1
    /\ IF dl_attempt + 1 < max_retries
       THEN dl_pc' = "attempting" /\ UNCHANGED dl_ret
       ELSE dl_pc' = "returned" /\ dl_ret' = "None"
    /\ UNCHANGED dl_file
    /\ UNCHANGED dlRest
----------------------------------------------------------------------------
(* Specification *)

Next ==
    \/ Construct
    \/ ApiRun
    \/ StepStart
    \/ \E success \in BOOLEAN : StepFinish(success)
    \/ RunEnd
    \/ MainParseArgs
    \/ MainRun
    \/ MainAfterRun
    \/ RpMain
    \/ RpScriptStart
    \/ \E success \in BOOLEAN : RpScriptFinish(success)
    \/ RpSleep
    \/ \E outcome \in DumpOutcomes : RpDumpSummaries(outcome)
    \/ \E outcome \in DumpOutcomes : RpFinalDump(outcome)
    \/ ExtractCall
    \/ \E id \in DocIds, a \in SectionValues, c \in SectionValues, outcome \in UpdateOutcomes :
            UpdateCall(id, Sections(a, c), outcome)
    \/ \E papers \in SUBSET DocIds, ok \in BOOLEAN : FetchStage(papers, ok)
    \/ DownloadStage
    \/ \E S \in SUBSET DocIds : \E artifacts \in [S -> StageTexts] : ParseStage(artifacts)
    \/ SummariseStage
    \/ \E ok \in BOOLEAN : ClearStage(ok)
    \/ ExBegin
    \/ \E outcome \in UpdateOutcomes : ExDoc(outcome)
    \/ \E ok \in BOOLEAN : ExSave(ok)
    \/ ExAbort
    \/ PpBegin
    \/ \E t \in 1..MaxJobs : PpTaskStart(t)
    \/ \E t \in 1..MaxJobs, outcome \in ConvertOutcomes : PpConvertEnd(t, outcome)
    \/ \E t \in 1..MaxJobs, export \in ExportOutcomes : PpTaskResume(t, export)
    \/ PpSettle
    \/ \E outcome \in AttemptOutcomes : DlAttempt(outcome)
    \/ DlSleep

Spec == Init /\ [][Next]_vars

\* One run of convert_pdfs_parallel on its own.  The event loop runs every
\* callback that is ready and every conversion thread runs until its
\* converter.convert returns or raises, so a step that stays possible is
\* eventually taken.
PpInit == Init /\ entry = "parse_parallel"

PpNext ==
    \/ PpBegin
    \/ \E t \in 1..MaxJobs : PpTaskStart(t)
    \/ \E t \in 1..MaxJobs, outcome \in ConvertOutcomes : PpConvertEnd(t, outcome)
    \/ \E t \in 1..MaxJobs, export \in ExportOutcomes : PpTaskResume(t, export)
    \/ PpSettle

PpSpec == PpInit /\ [][PpNext]_vars /\ WF_vars(PpNext)

\* One call of download_pdf. requests.get is called with timeout=30 and
\* time.sleep(retry_delay) ends after its delay, so a pass of the loop body
\* that has begun ends and a sleep that has begun ends.
DlInit == Init /\ entry = "download_pdf"

DlNext ==
    \/ \E outcome \in AttemptOutcomes : DlAttempt(outcome)
    \/ DlSleep

DlSpec == DlInit /\ [][DlNext]_vars /\ WF_vars(DlNext)

----------------------------------------------------------------------------
(* Properties *)

\* the fixed order of the stages
StageOrder == [clear |-> 1, fetch |-> 2, download |-> 3, parse |-> 4, extract |-> 5, summarise |-> 6]

IsRunEvent(e) == e[1] = "run"

\* the scripts run_pipeline has started, in order
RpRan == SelectSeq(rp_log, IsRunEvent)

\* the positions of the completed grace-period waits in the log of run_pipeline
RpSleeps == {p \in 1..Len(rp_log) : rp_log[p][1] = "sleep"}

\* C1 (run_full_workflow): when the step at position k of the run has failed,
\* the steps called are exactly steps 1..k, nothing runs any more, the call has
\* returned False and the error logged names step k.  Every step of
\* run_full_workflow is required: the loop has no other case.
C1_WorkflowAborts ==
    \A k \in 1..Len(outcomes) :
        ~outcomes[k][2] =>
            /\ k = Len(outcomes)
            /\ Len(invoked) = k
            /\ \A j \in 1..k : invoked[j] = steps[j]
            /\ outcomes[k][1] = steps[k]
            /\ running = {}
            /\ pc = "returned"
            /\ ret = "False"
            /\ log_error = <<"failed_at_step", steps[k]>>

\* C1 (run_pipeline): when the required script at position k has failed, the
\* scripts started are exactly scripts 1..k, the run has returned False and its
\* last message names script k.
C1_RunPipelineAborts ==
    \A k \in 1..Len(pipeline) :
        (Required(k) /\ <<"failed", Script(k)>> \in Range(rp_log)) =>
            /\ Len(RpRan) = k
            /\ \A j \in 1..k : RpRan[j][2] = Script(j)
            /\ rp_log[Len(rp_log)] = <<"stopped", Script(k)>>
            /\ rp_running = {}
            /\ rp_pc = "done"
            /\ rp_ret = "False"

\* C1: a failing required stage at position k leaves stages 0..k as the only
\* stages executed, and the run reports failure naming stage k.
C1_RequiredFailureAborts == C1_WorkflowAborts /\ C1_RunPipelineAborts

\* C1 witness: a call of run_full_workflow whose third step failed after two
\* successful ones.
C1_Witness ==
    /\ pc = "returned"
    /\ Len(outcomes) = 3
    /\ outcomes[1][2] /\ outcomes[2][2] /\ ~outcomes[3][2]
    /\ ret = "False"

\* C3: run_full_workflow(start_from=S) with S a stage name calls only stages
\* that are not ordered before S, and the stages it calls are consecutive in
\* the fixed order, the first one being S.
C3_ResumeNeverRunsEarlier ==
    (runs > 0 /\ start_from \in Choices) =>
        \A j \in 1..Len(invoked) :
            /\ invoked[j] \in DOMAIN StageOrder
            /\ StageOrder[invoked[j]] = StageOrder[start_from] + (j - 1)

\* C3 witness: a run from "extract" that called extract and summarise and
\* returned True.
C3_Witness ==
    /\ start_from = "extract"
    /\ invoked = <<"extract", "summarise">>
    /\ ret = "True"

\* C4 (as claimed): a call of run_full_workflow whose start_from is given and is
\* no stage name calls no stage, leaves self.state as it was and returns False.
C4_UnknownStartFails ==
    (runs > 0 /\ start_from # None /\ start_from \notin Choices) =>
        /\ invoked = <<>>
        /\ state = prev_state
        /\ pc = "returned" => ret = "False"

\* C5: when a required script file is missing, the constructor raises: the
\* object never becomes usable, run_full_workflow is never entered, no stage is
\* called, and main ends with a non-zero status.
C5_MissingFileFailsAtConstruction ==
    (files # AllScripts) =>
        /\ wm \in {"none", "raised"}
        /\ runs = 0
        /\ invoked = <<>>
        /\ running = {}
        /\ state = EmptyDict
        /\ (entry = "workflow_main" /\ wm = "raised") => (main_pc = "exited" /\ exit_code # 0)

\* C5 witness: main has ended after the constructor raised for a missing file.
C5_Witness ==
    /\ entry = "workflow_main"
    /\ files # AllScripts
    /\ wm = "raised"
    /\ main_pc = "exited"

\* C6: at most one stage runs at a time, the stages that were started and have
\* not returned are exactly the running ones, and when a stage is started the
\* outcome of every stage started before it is recorded in self.state.
C6_StrictlySequential ==
    /\ Cardinality(running) <= 1
    /\ Len(invoked) - Len(outcomes) = Cardinality(running)
    /\ \A n \in 1..(Len(invoked) - 1) :
        /\ outcomes[n][1] = invoked[n]
        /\ invoked[n] \in DOMAIN state
        /\ state[invoked[n]] = outcomes[n][2]

\* C6 witness: the third stage of a full run is running.
C6_Witness ==
    /\ pc = "in_step"
    /\ Len(invoked) = 3
    /\ running = {invoked[3]}

\* C7 (as claimed): once a call of run_full_workflow has returned, what
\* get_status returns holds the stages called in that most recent call and no
\* others.
C7_StatusOfCurrentRunOnly ==
    (runs > 0 /\ pc = "returned") => (DOMAIN get_status = Range(invoked))

\* C8 (as claimed): when every script of run_pipeline succeeded, the run ends
\* with the export at the end of the run and returns True, whatever the exports
\* did.
C8_ExportFailureNeverAborts ==
    (rp_pc = "done" /\ \A k \in 1..Len(pipeline) : <<"ok", Script(k)>> \in Range(rp_log)) =>
        /\ rp_ret = "True"
        /\ \E p \in 1..Len(rp_log) : rp_log[p][1] = "dump_full_documents"

Normalised(g) == Collapse(Strip(g))

\* a pattern of the list ms matched and its normalised capture is longer than n
HasCaptureLongerThan(ms, n) ==
    \E k \in 1..Len(ms) : ms[k].matched /\ StrLen(Normalised(ms[k].group)) > n

\* the first pattern of ms whose normalised capture is longer than 50
FirstLong(ms) ==
    CHOOSE k \in 1..Len(ms) :
        /\ ms[k].matched /\ StrLen(Normalised(ms[k].group)) > 50
        /\ \A j \in 1..(k - 1) : ~(ms[j].matched /\ StrLen(Normalised(ms[j].group)) > 50)

Printed(msg) == msg \in Range(ex_result.prints)

ExtractedFromText == ex_result.called /\ ex_text.kind = "text"

\* C18 (as claimed): a capture of normalised length 50 or more is accepted (the
\* field it is tried for is set), and no accepted value is shorter than 50.
C18_GateAtFifty ==
    ExtractedFromText =>
        /\ HasCaptureLongerThan(ex_text.abstract, 49) => ex_result.sections.abstract # NoneText
        /\ HasCaptureLongerThan(ex_text.conclusion, 49) => ex_result.sections.conclusion # NoneText
        /\ HasCaptureLongerThan(ex_text.discussion, 49) => ex_result.sections.conclusion # NoneText
        /\ ex_result.sections.abstract # NoneText => StrLen(ex_result.sections.abstract) >= 50
        /\ ex_result.sections.conclusion # NoneText => StrLen(ex_result.sections.conclusion) >= 50

\* C18 (amended): for abstract, conclusion and discussion alike the check is
\* "longer than 50": every accepted value is the normalised capture of a
\* matching pattern and has more than 50 characters, so a capture of exactly 50
\* is rejected; a capture of 51 or more of an abstract pattern sets the
\* abstract, and one of a conclusion or discussion pattern sets the conclusion.
C18_GateAboveFifty ==
    ExtractedFromText =>
        /\ HasCaptureLongerThan(ex_text.abstract, 50) <=> ex_result.sections.abstract # NoneText
        /\ (HasCaptureLongerThan(ex_text.conclusion, 50) \/ HasCaptureLongerThan(ex_text.discussion, 50))
              <=> ex_result.sections.conclusion # NoneText
        /\ ex_result.sections.abstract # NoneText =>
              /\ StrLen(ex_result.sections.abstract) > 50
              /\ \E k \in 1..NAbstractPatterns :
                    /\ ex_text.abstract[k].matched
                    /\ ex_result.sections.abstract = Normalised(ex_text.abstract[k].group)
        /\ ex_result.sections.conclusion # NoneText =>
              /\ StrLen(ex_result.sections.conclusion) > 50
              /\ \/ \E k \in 1..NConclusionPatterns :
                        /\ ex_text.conclusion[k].matched
                        /\ ex_result.sections.conclusion = Normalised(ex_text.conclusion[k].group)
                 \/ \E k \in 1..NDiscussionPatterns :
                        /\ ex_text.discussion[k].matched
                        /\ ex_result.sections.conclusion = Normalised(ex_text.discussion[k].group)

\* C18 witness: a capture of normalised length exactly 50 was passed over and a
\* later abstract pattern's capture of length 51 was accepted.
C18_Witness ==
    /\ ExtractedFromText
    /\ ex_text.abstract[1].matched /\ StrLen(Normalised(ex_text.abstract[1].group)) = 50
    /\ ex_text.abstract[2].matched /\ StrLen(Normalised(ex_text.abstract[2].group)) = 51
    /\ ex_result.sections.abstract = Normalised(ex_text.abstract[2].group)

\* C19 (as claimed): when a conclusion pattern and a discussion pattern both
\* match, the conclusion never comes from a discussion pattern, whatever the
\* length of the conclusion capture.
C19_DiscussionNeverConsulted ==
    (/\ ExtractedFromText
     /\ \E k \in 1..NConclusionPatterns : ex_text.conclusion[k].matched
     /\ \E k \in 1..NDiscussionPatterns : ex_text.discussion[k].matched) =>
        ~Printed("Found discussion as conclusion")

\* C19 (amended): when a conclusion pattern matches with a capture longer than
\* 50 characters, the conclusion is the capture of the first such conclusion
\* pattern and no discussion pattern supplies it; when every conclusion capture
\* is 50 characters or shorter, the discussion patterns are consulted and the
\* first discussion capture longer than 50 becomes the conclusion.
C19_DiscussionOnlyWithoutConclusion ==
    ExtractedFromText =>
        /\ HasCaptureLongerThan(ex_text.conclusion, 50) =>
              /\ Printed("Found conclusion")
              /\ ~Printed("Found discussion as conclusion")
              /\ ex_result.sections.conclusion =
                    Normalised(ex_text.conclusion[FirstLong(ex_text.conclusion)].group)
        /\ (~HasCaptureLongerThan(ex_text.conclusion, 50) /\ HasCaptureLongerThan(ex_text.discussion, 50)) =>
              /\ Printed("Found discussion as conclusion")
              /\ ~Printed("Found conclusion")
              /\ ex_result.sections.conclusion =
                    Normalised(ex_text.discussion[FirstLong(ex_text.discussion)].group)

\* C19 witness: a conclusion pattern and a discussion pattern both have a long
\* capture, with different texts, and the conclusion pattern's was returned.
C19_Witness ==
    /\ ExtractedFromText
    /\ HasCaptureLongerThan(ex_text.conclusion, 50)
    /\ HasCaptureLongerThan(ex_text.discussion, 50)
    /\ Printed("Found conclusion")
    /\ ex_result.sections.conclusion # Normalised(ex_text.discussion[FirstLong(ex_text.discussion)].group)

\* C20 (as claimed): the result carries a provenance tag: conclusion_source is
\* "discussion" when the conclusion is the text of a discussion pattern, and
\* "conclusion" when it is the text of a conclusion pattern.
C20_ProvenanceTag ==
    (ExtractedFromText /\ ex_result.sections.conclusion # NoneText) =>
        /\ "conclusion_source" \in DOMAIN ex_result.sections
        /\ ex_result.sections["conclusion_source"] =
              (IF HasCaptureLongerThan(ex_text.conclusion, 50) THEN "conclusion" ELSE "discussion")

----------------------------------------------------------------------------
(* Properties of update_database_with_sections and of the extraction stage *)

\* the call of update_database_with_sections has been made on an existing row
\* and it committed an UPDATE
UpdateWrote ==
    /\ up_result.called
    /\ up_result.wrote

\* C16: an UPDATE committed by update_database_with_sections sets exactly the
\* columns whose value in the result is not None, each to the result's value;
\* the other section column, the columns fetch wrote and every other row are
\* as they were before the call.
C16_MergePolicy ==
    UpdateWrote =>
        LET id     == up_result.id
            before == up_result.before
            sec    == up_result.sections
        IN  /\ id \in DOMAIN before
            /\ DOMAIN db = DOMAIN before
            /\ db[id].abstract =
                  (IF sec.abstract # NoneText THEN sec.abstract ELSE before[id].abstract)
            /\ db[id].conclusion =
                  (IF sec.conclusion # NoneText THEN sec.conclusion ELSE before[id].conclusion)
            /\ db[id].title = before[id].title
            /\ \A other \in (DOMAIN before) \ {id} : db[other] = before[other]

\* C16 witness: {abstract: None, conclusion: X} was written to a row holding
\* abstract A and no conclusion; the row now holds A and X.
C16_Witness ==
    /\ UpdateWrote
    /\ up_result.sections = Sections(NoneText, ConclusionText(ConclusionCapture))
    /\ up_result.before[up_result.id].abstract = AbstractText(AbstractCapture)
    /\ up_result.before[up_result.id].conclusion = NoneText
    /\ db[up_result.id].abstract = AbstractText(AbstractCapture)
    /\ db[up_result.id].conclusion = ConclusionText(ConclusionCapture)

\* an extraction run is in its loop or has just ended: its locals and history
\* describe the files as they are now
InExtractionRun ==
    /\ entry = "stages"
    /\ \/ st_pc = "ex_loop"
       \/ st_pc = "idle" /\ last_stage \in {"extract", "extract_raised"}

\* the extraction run has ended with the sections file written
ExtractionRunSaved ==
    /\ entry = "stages"
    /\ st_pc = "idle"
    /\ last_stage = "extract"
    /\ documents # <<>>
    /\ sections_json = extracted_sections

\* extract_sections finds neither an abstract nor a conclusion in the artifact
Sectionless(text) == extract_sections(text) = Sections(NoneText, NoneText)

\* the ids of this run whose result had both sections None
SectionlessInvoked == {id \in ex_invoked : Sectionless(conv[id])}

\* C17: a result with abstract and conclusion both None is never written:
\* update_database_with_sections commits nothing for it and does not return
\* True, and in an extraction run the document's row stays as it was when
\* the run began, the document is counted as failed and the loop goes on to
\* the next document.
C17_SectionlessIsFailedNotWritten ==
    /\ (up_result.called /\ up_result.sections = Sections(NoneText, NoneText)) =>
            /\ ~up_result.wrote
            /\ db = up_result.before
            /\ up_result.ret # "True"
    /\ InExtractionRun =>
            /\ failed = Cardinality(ex_failed_ids)
            /\ \A id \in SectionlessInvoked :
                    /\ id \notin ex_written
                    /\ db[id] = ex_db0[id]
                    /\ id \in ex_failed_ids
                    /\ id \notin DOMAIN extracted_sections
                    /\ \E k \in 1..(di - 1) : documents[k] = id

\* C17 witness: a run has ended in which the first document had no sections
\* and was counted as failed, and the document after it was extracted and
\* written.
C17_Witness ==
    /\ ExtractionRunSaved
    /\ Len(documents) = 2
    /\ documents[1] \in SectionlessInvoked
    /\ documents[1] \in ex_failed_ids
    /\ documents[2] \in ex_written
    /\ failed = 1
    /\ successful_updates = 1

\* C11: in an extraction run, for every id of the sections file as loaded at
\* the start of the run, extract_sections is not called and no UPDATE is
\* committed (its row is as it was when the run began), whatever the row's
\* abstract and conclusion hold.
C11_CachedIdsUntouched ==
    InExtractionRun =>
        \A id \in DOMAIN existing_sections :
            /\ id \notin ex_invoked
            /\ id \notin ex_written
            /\ id \in DOMAIN ex_db0 => (id \in DOMAIN db /\ db[id] = ex_db0[id])

\* C11 witness: a run has ended that skipped a document which is in the loaded
\* sections file, has an artifact with sections, and whose row holds neither
\* an abstract nor a conclusion.
C11_Witness ==
    /\ InExtractionRun
    /\ st_pc = "idle"
    /\ skipped >= 1
    /\ \E id \in DOMAIN existing_sections :
            /\ id \in Range(documents)
            /\ id \in DOMAIN conv
            /\ ~Sectionless(conv[id])
            /\ db[id].abstract = NoneText
            /\ db[id].conclusion = NoneText

\* C12 (as claimed): when an extraction run in which no database call and no
\* file write failed has ended, the sections file holds the result of every
\* call of extract_sections made in the run, a result with both sections None
\* included.
C12_CacheHoldsEveryResult ==
    (ExtractionRunSaved /\ ex_clean) =>
        \A id \in ex_invoked :
            /\ id \in DOMAIN sections_json
            /\ sections_json[id] = extract_sections(conv[id])

\* a step of the explicit full reset (workflow.py clear_workspace)
ResetStep == last_stage' = "clear" /\ stage_runs' # stage_runs

\* C15 (as claimed): no step of a stage other than the full reset takes a
\* row's abstract or conclusion from a value back to NULL.
C15_MonotonicEnrichment ==
    [][ (entry = "stages" /\ ~ResetStep) =>
            \A id \in DOMAIN db :
                /\ db[id].abstract # NoneText =>
                        (id \in DOMAIN db' /\ db'[id].abstract # NoneText)
                /\ db[id].conclusion # NoneText =>
                        (id \in DOMAIN db' /\ db'[id].conclusion # NoneText) ]_vars

C13_SecondRunIdempotent ==
    (InExtractionRun /\ in_succession) =>
        /\ ex_written = {}
        /\ st_pc = "idle" => sections_json = existing_sections

----------------------------------------------------------------------------
(* Properties of extract_sections: failures and the cascade *)

\* C21: a call of extract_sections always returns a dict with the keys
\* abstract and conclusion; for an artifact that cannot be read or parsed and
\* for empty or blank content both values are None, no "Found ..." message was
\* printed, and blank content is turned down before any pattern is tried, with
\* the "No content found" warning.
C21_NeverRaises ==
    ex_result.called =>
        /\ ~ex_result.raised
        /\ DOMAIN ex_result.sections = {"abstract", "conclusion"}
        /\ ex_text.kind \in {"unreadable", "no_content"} =>
                /\ ex_result.sections = Sections(NoneText, NoneText)
                /\ ~Printed("Found abstract")
                /\ ~Printed("Found conclusion")
                /\ ~Printed("Found discussion as conclusion")
        /\ ex_text.kind = "unreadable" => ex_result.prints = <<"Error processing">>
        /\ ex_text.kind = "no_content" => ex_result.prints = <<"Warning: No content found">>

\* C21 witness: the call was made on an artifact that cannot be read, and it
\* returned the dict with both values None.
C21_Witness ==
    /\ ex_result.called
    /\ ex_text.kind = "unreadable"
    /\ ~ex_result.raised
    /\ ex_result.sections = Sections(NoneText, NoneText)

\* pattern k of the list ms matches and its normalised capture passes the
\* length check
Qualifies(ms, k) == ms[k].matched /\ StrLen(Normalised(ms[k].group)) > 50

\* pattern k is the first of ms that qualifies
FirstQualifying(ms, k) == Qualifies(ms, k) /\ \A j \in 1..(k - 1) : ~Qualifies(ms, j)

NoneQualifies(ms) == \A k \in 1..Len(ms) : ~Qualifies(ms, k)

\* C30: the abstract is the normalised capture of the first abstract pattern,
\* in list order, that matches with a capture longer than 50, whatever matched
\* before it with a shorter capture and whatever qualifies after it; the
\* conclusion is chosen the same way among the conclusion patterns, then, when
\* none of them qualifies, among the discussion patterns; a field for which no
\* pattern qualifies is None.
C30_CascadeRule ==
    ExtractedFromText =>
        /\ \A k \in 1..NAbstractPatterns :
                FirstQualifying(ex_text.abstract, k) =>
                    ex_result.sections.abstract = Normalised(ex_text.abstract[k].group)
        /\ NoneQualifies(ex_text.abstract) => ex_result.sections.abstract = NoneText
        /\ \A k \in 1..NConclusionPatterns :
                FirstQualifying(ex_text.conclusion, k) =>
                    ex_result.sections.conclusion = Normalised(ex_text.conclusion[k].group)
        /\ \A k \in 1..NDiscussionPatterns :
                (NoneQualifies(ex_text.conclusion) /\ FirstQualifying(ex_text.discussion, k)) =>
                    ex_result.sections.conclusion = Normalised(ex_text.discussion[k].group)
        /\ (NoneQualifies(ex_text.conclusion) /\ NoneQualifies(ex_text.discussion)) =>
                ex_result.sections.conclusion = NoneText

\* C30 witness: the first conclusion pattern matched with a capture that is
\* too short, a later conclusion pattern qualified, and the conclusion
\* returned is the later pattern's capture.
C30_Witness ==
    /\ ExtractedFromText
    /\ ex_text.conclusion[1].matched
    /\ ~Qualifies(ex_text.conclusion, 1)
    /\ \E k \in 2..NConclusionPatterns :
            /\ FirstQualifying(ex_text.conclusion, k)
            /\ ex_result.sections.conclusion = Normalised(ex_text.conclusion[k].group)

----------------------------------------------------------------------------
(* Properties of convert_pdfs_parallel *)

\* the gather has returned and the summary was printed
Settled == entry = "parse_parallel" /\ pp_pc = "settled"

\* the tasks whose PDF is job
TasksOf(job) == {t \in DOMAIN pp_tasks : pp_tasks[t].job = job}

\* C22: when a run over N PDFs has settled there are exactly N results, one
\* for each PDF, each True or False; and at every moment converter.convert has
\* been called at most once for a PDF, and not at all for a PDF whose output
\* was there when the run began.
C22_OneOutcomePerJob ==
    /\ Settled =>
            /\ Len(pp_results) = pp_n
            /\ \A job \in 0..(pp_n - 1) :
                    /\ Cardinality(TasksOf(job)) = 1
                    /\ \A t \in TasksOf(job) : pp_results[t] \in {"True", "False"}
    /\ \A t \in DOMAIN pp_tasks :
            /\ pp_calls[t] <= 1
            /\ pp_out0[pp_tasks[t].job] = "old" => pp_calls[t] = 0

\* C22 witness: a run over at least three PDFs has settled, one of them had
\* its output before the run and was not converted, another was converted.
C22_Witness ==
    /\ Settled
    /\ pp_n >= 3
    /\ \E t, u \in DOMAIN pp_tasks :
            /\ pp_out0[pp_tasks[t].job] = "old" /\ pp_calls[t] = 0
            /\ pp_out0[pp_tasks[u].job] = "absent" /\ pp_calls[u] = 1

\* the tasks whose conversion is executing in its thread
Converting == {t \in DOMAIN pp_tasks : pp_state[t] = "converting"}

\* C23 (as claimed): at every moment at most PoolSize conversions are
\* executing, and no two executing conversions belong to the same converter
\* instance.
C23_BoundedConcurrency ==
    entry = "parse_parallel" =>
        /\ Cardinality(Converting) <= PoolSize
        /\ \A t, u \in Converting : pp_tasks[t].worker = pp_tasks[u].worker => t = u

\* the tasks whose output was there when the run began
HadOutput == {t \in DOMAIN pp_tasks : pp_out0[pp_tasks[t].job] = "old"}

\* C24: a task whose output was there when the run began ends at its first
\* step, at "output already exists": converter.convert is never called for it,
\* it never waits for a conversion, and its output file stays the file that
\* was there.
C24_ExistingOutputSkipped ==
    /\ \A job \in DOMAIN pp_out0 : pp_out0[job] = "old" => pp_out[job] = "old"
    /\ \A t \in HadOutput :
            /\ pp_calls[t] = 0
            /\ pp_state[t] \in {"created", "done"}
            /\ pp_state[t] = "done" => (t \in pp_skipped /\ pp_results[t] = "True")

\* C24 witness: a task whose output was there has been skipped while the task
\* created before it is still converting.
C24_Witness ==
    /\ entry = "parse_parallel"
    /\ \E t \in HadOutput :
            /\ t \in pp_skipped
            /\ t > 1
            /\ pp_state[t - 1] = "converting"
            /\ pp_out[pp_tasks[t].job] = "old"

\* C25 (as claimed): in the summary every task is counted once, as skipped
\* when it returned at "output already exists", as successful when its PDF was
\* converted and exported, as failed otherwise.
C25_CountsClassify ==
    Settled =>
        /\ pp_counts.successful + pp_counts.failed + pp_counts.skipped = pp_n
        /\ pp_counts.skipped = Cardinality(pp_skipped)
        /\ pp_counts.successful =
                Cardinality({t \in DOMAIN pp_tasks : t \notin pp_skipped /\ pp_results[t] = "True"})
        /\ pp_counts.failed = Cardinality({t \in DOMAIN pp_tasks : pp_results[t] = "False"})

\* the tasks given to converter instance w
TasksOfWorker(w) == {t \in DOMAIN pp_tasks : pp_tasks[t].worker = w}

\* C27: once the tasks are created, the i-th PDF (0-based, in the order of
\* input_paths) is paired with instance i mod PoolSize, so every instance has
\* floor(N / PoolSize) or ceil(N / PoolSize) of the N tasks.
C27_RoundRobin ==
    (entry = "parse_parallel" /\ pp_pc \in {"gathering", "settled"}) =>
        /\ Len(pp_tasks) = pp_n
        /\ \A t \in DOMAIN pp_tasks :
                /\ pp_tasks[t].job = t - 1
                /\ pp_tasks[t].worker = (t - 1) % PoolSize
        /\ \A w \in 0..(PoolSize - 1) :
                LET floor == pp_n \div PoolSize
                    ceil  == (pp_n + PoolSize - 1) \div PoolSize
                IN  Cardinality(TasksOfWorker(w)) \in {floor, ceil}

\* C27 witness: four PDFs, the first instance has the PDFs 0 and 2, the
\* second the PDFs 1 and 3.
C27_Witness ==
    /\ entry = "parse_parallel"
    /\ pp_pc = "gathering"
    /\ pp_n = 4
    /\ {pp_tasks[t].job : t \in TasksOfWorker(0)} = {0, 2}
    /\ {pp_tasks[t].job : t \in TasksOfWorker(1)} = {1, 3}

\* task t ends with the result False in this step
FailsNow(t) == pp_results[t] = "none" /\ pp_results'[t] = "False"

\* C26: a step in which a task ends with False changes the state and the
\* result of no other task and leaves the gather waiting; the run never ends
\* with an exception of a task; and every run whose tasks were created
\* settles, every task then having its own result.
C26_FailureCancelsNothing ==
    /\ [][ \A t \in DOMAIN pp_tasks :
                FailsNow(t) =>
                    /\ pp_pc' = "gathering"
                    /\ \A u \in (DOMAIN pp_tasks) \ {t} :
                            /\ pp_state'[u] = pp_state[u]
                            /\ pp_results'[u] = pp_results[u] ]_vars
    /\ [](pp_pc # "raised")
    /\ [](Settled => \A t \in DOMAIN pp_tasks : pp_results[t] \in {"True", "False"})
    /\ (pp_pc = "gathering") ~> Settled

\* C26 witness: a run over at least three PDFs has settled, one task ended
\* with False and two others, which were converted, with True.
C26_Witness ==
    /\ Settled
    /\ pp_n >= 3
    /\ \E t, u, v \in DOMAIN pp_tasks :
            /\ u # v
            /\ pp_results[t] = "False"
            /\ pp_results[u] = "True" /\ pp_calls[u] = 1
            /\ pp_results[v] = "True" /\ pp_calls[v] = 1

----------------------------------------------------------------------------
(* Properties of the database connections and rows *)

\* C28 (as claimed): whatever the database does (connect, statement or commit
\* failing), a call of update_database_with_sections ends by returning True or
\* False: closing the connection in the finally block raises no error of its
\* own.
C28_CleanupNeverRaises ==
    up_result.called => up_result.ret \in {"True", "False"}

\* C29: no step of fetch, download, parse, extraction or summarise removes an
\* id from full_documents; only the full reset does.
C29_DocumentsNeverDeleted ==
    [][ (entry = "stages" /\ ~ResetStep) => DOMAIN db \subseteq DOMAIN db' ]_vars

\* C29 witness: a fetch has just ended, and a document that was fetched and
\* extracted before it is still in the table, next to a document that has no
\* artifact yet.
C29_Witness ==
    /\ entry = "stages"
    /\ st_pc = "idle"
    /\ last_stage = "fetch"
    /\ \E id, other \in DOMAIN db :
            /\ db[id].abstract # NoneText
            /\ other # id
            /\ db[other] = Row("t1", NoneText, NoneText)
            /\ other \notin DOMAIN conv

----------------------------------------------------------------------------
(* References truncation *)

\* the pattern whose capture extract_sections accepted as the conclusion
AcceptedFrom ==
    IF FirstConclusion(ex_text.conclusion) # 0
    THEN <<"conclusion", FirstConclusion(ex_text.conclusion)>>
    ELSE <<"discussion", FirstConclusion(ex_text.discussion)>>

\* the capture of that pattern
AcceptedCapture == ex_text[AcceptedFrom[1]][AcceptedFrom[2]].group

\* the capture g, which begins a line when lineStart, opens with a References
\* heading
OpensWithHeading(g, lineStart) ==
    lineStart /\ LStrip(g) # <<>> /\ LStrip(g)[1][1] = "ref"

\* g has a References heading at the start of one of its lines
HeadingOnNewLine(g, lineStart) ==
    OpensWithHeading(g, lineStart) \/ \E p \in 1..Len(g) : ReferencesAt(g, p)

\* g up to its first References heading at the start of a line
CutAtHeading(g, lineStart) ==
    IF OpensWithHeading(g, lineStart) THEN <<>> ELSE SplitReferences(g)

\* C31: a conclusion that extract_sections accepted is the text of its capture
\* before the first References heading that starts a line, and that text
\* passed the length check.
C31_ReferencesCut ==
    (ExtractedFromText /\ ex_result.sections.conclusion # NoneText) =>
        LET cut == Normalised(CutAtHeading(AcceptedCapture,
                                           GroupStartsLine(AcceptedFrom[1], AcceptedFrom[2])))
        IN  /\ ex_result.sections.conclusion = cut
            /\ StrLen(cut) > MinLength

----------------------------------------------------------------------------
(* The tallies of an extraction run *)

\* the loop over the documents has ended
LoopEnded == di > Len(documents)

\* C32: in an extraction run every document the loop has passed is counted
\* once, as succeeded, skipped or failed; no document ends the run, which
\* goes on to the summary only after the last document, and then the three
\* counts add up to the number of documents read from the table.
C32_TalliesAddUp ==
    InExtractionRun =>
        /\ successful_updates + skipped + failed = di - 1
        /\ st_pc = "idle" => LoopEnded
        /\ LoopEnded => successful_updates + skipped + failed = Len(documents)

\* C32 witness: a run of two documents has ended; the update of one raised
\* and it was counted as failed, the other was counted as succeeded.
C32_Witness ==
    /\ InExtractionRun
    /\ st_pc = "idle"
    /\ Len(documents) = 2
    /\ failed = 1
    /\ successful_updates = 1
    /\ \E id \in ex_failed_ids : id \in ex_invoked /\ ~Sectionless(conv[id]) /\ id \notin ex_written

----------------------------------------------------------------------------
(* The verification after the UPDATE *)

\* the columns that the result sections sets hold, in the row, what was sent
AgreesOnWritten(row, sections) ==
    /\ sections.abstract # NoneText => row.abstract = sections.abstract
    /\ sections.conclusion # NoneText => row.conclusion = sections.conclusion

\* C33: a call of update_database_with_sections that committed its UPDATE and
\* compared the re-read row returns True exactly when the columns it set hold
\* what was sent, whatever the other column holds; otherwise it returns False
\* and the row stays as the UPDATE left it. In an extraction run a document
\* whose re-read differed is counted as failed and is not cached, its row
\* stays as written, and the loop goes on to the documents after it.
C33_MismatchIsOnlyAWarning ==
    /\ (up_result.called /\ up_result.compared) =>
            /\ up_result.wrote
            /\ db[up_result.id] = Merge(up_result.before[up_result.id], up_result.sections)
            /\ up_result.verified <=> AgreesOnWritten(up_result.read, up_result.sections)
            /\ up_result.ret = (IF up_result.verified THEN "True" ELSE "False")
    /\ InExtractionRun =>
            /\ st_pc = "idle" => LoopEnded
            /\ \A id \in ex_mismatched :
                    /\ id \in ex_written
                    /\ id \in ex_failed_ids
                    /\ id \notin DOMAIN extracted_sections
                    /\ db[id] = Merge(ex_db0[id], extract_sections(conv[id]))
                    /\ \E k \in 1..(di - 1) : documents[k] = id

\* C33 witness: a run has ended in which the re-read of the first document
\* differed from what was written, and the document after it was extracted,
\* written and verified.
C33_Witness ==
    /\ InExtractionRun
    /\ st_pc = "idle"
    /\ Len(documents) = 2
    /\ documents[1] \in ex_mismatched
    /\ db[documents[1]] # ex_db0[documents[1]]
    /\ documents[2] \in ex_verified

----------------------------------------------------------------------------
(* Partial results *)

\* exactly one of abstract and conclusion is None
Partial(sections) == (sections.abstract = NoneText) # (sections.conclusion = NoneText)

\* the ids of this run whose artifact was read and gave a partial result
PartialInvoked == {id \in ex_invoked : Partial(extract_sections(conv[id]))}

\* C34: a result with exactly one section is written like a complete one: a
\* call of update_database_with_sections that meets no database error sets
\* the column of that section, leaves the other column as it was and returns
\* True; in an extraction run the document is then counted as succeeded, not
\* as failed, and cached; as long as every update of the run has returned
\* True, no document with a partial result is among the failed ones.
C34_PartialIsUsable ==
    /\ (up_result.called /\ Partial(up_result.sections) /\ up_result.compared
            /\ up_result.read = db[up_result.id]) =>
            /\ up_result.ret = "True"
            /\ AgreesOnWritten(db[up_result.id], up_result.sections)
            /\ up_result.sections.abstract = NoneText =>
                    db[up_result.id].abstract = up_result.before[up_result.id].abstract
            /\ up_result.sections.conclusion = NoneText =>
                    db[up_result.id].conclusion = up_result.before[up_result.id].conclusion
    /\ InExtractionRun =>
            /\ successful_updates = Cardinality(ex_verified)
            /\ \A id \in PartialInvoked :
                    /\ id \in ex_verified <=> id \notin ex_failed_ids
                    /\ ex_clean => id \in ex_verified
                    /\ id \in ex_verified =>
                            /\ id \in DOMAIN extracted_sections
                            /\ extracted_sections[id] = extract_sections(conv[id])
                            /\ AgreesOnWritten(db[id], extract_sections(conv[id]))

\* C34 witness: a run has ended in which a document with a conclusion and no
\* abstract was written, counted as succeeded and cached.
C34_Witness ==
    /\ InExtractionRun
    /\ st_pc = "idle"
    /\ \E id \in PartialInvoked \cap ex_verified :
            /\ extract_sections(conv[id]).abstract = NoneText
            /\ db[id].conclusion = extract_sections(conv[id]).conclusion
            /\ id \in DOMAIN extracted_sections
    /\ successful_updates >= 1
    /\ failed = 0

----------------------------------------------------------------------------
(* The output files of the conversions *)

\* the tasks that tested or opened the output file f
Touching(f) == pp_access[f].checked \cup pp_access[f].written

----------------------------------------------------------------------------
(* The retries of download_pdf *)

\* the call has ended
DlEnded == dl_pc \in {"returned", "raised"}

\* the k-th event of the call is an attempt / an attempt that ended with a
\* RequestException / a sleep
IsAttempt(k) == dl_log[k][1] = "attempt"
IsFailedRequest(k) == IsAttempt(k) /\ dl_log[k][2] \in RequestErrors
IsSleep(k) == dl_log[k][1] = "sleep"

NumAttempts == Cardinality({k \in DOMAIN dl_log : IsAttempt(k)})
NumSleeps == Cardinality({k \in DOMAIN dl_log : IsSleep(k)})

\* what holds of a call of download_pdf in every state
DlBounded ==
    /\ NumAttempts <= max_retries
    \* nothing follows an attempt that succeeded, and the call then returns True
    /\ \A k \in DOMAIN dl_log :
            (IsAttempt(k) /\ dl_log[k][2] = "ok") =>
                k = Len(dl_log) /\ dl_pc = "returned" /\ dl_ret = "True" /\ dl_file = "written"
    /\ dl_ret = "True" => dl_log[Len(dl_log)] = <<"attempt", "ok">>
    \* a sleep has the fixed delay, follows a failed attempt and, once the call
    \* has ended, is followed by an attempt
    /\ \A k \in DOMAIN dl_log :
            IsSleep(k) =>
                /\ dl_log[k][2] = retry_delay
                /\ k > 1 /\ IsFailedRequest(k - 1)
                /\ k < Len(dl_log) => IsAttempt(k + 1)
                /\ DlEnded => k < Len(dl_log)
    \* the third failed attempt ends the call with False, without a sleep
    /\ (NumAttempts = max_retries /\ IsFailedRequest(Len(dl_log))) =>
            dl_pc = "returned" /\ dl_ret = "False"
    /\ dl_pc = "returned" =>
            /\ dl_ret \in {"True", "False"}
            /\ dl_ret = "False" =>
                    /\ NumAttempts = max_retries
                    /\ NumSleeps = max_retries - 1
                    /\ \A k \in DOMAIN dl_log : IsAttempt(k) => IsFailedRequest(k)

\* C36: download_pdf makes at most max_retries (3) attempts; a successful
\* attempt is the last one and the call returns True; it sleeps retry_delay
\* only after a failed attempt that another attempt follows; after the third
\* failed attempt it returns False; and every call ends.
C36_BoundedRetry == []DlBounded /\ <>DlEnded

\* C36 witness: the call has returned False after three failed attempts with
\* a sleep after the first and after the second.
C36_Witness ==
    /\ entry = "download_pdf"
    /\ dl_pc = "returned"
    /\ dl_ret = "False"
    /\ Len(dl_log) = 5
    /\ IsFailedRequest(1) /\ IsSleep(2) /\ IsFailedRequest(3) /\ IsSleep(4) /\ IsFailedRequest(5)

----------------------------------------------------------------------------
(* What an extraction run adds to the sections file *)

\* the ids that the dict d has and the sections file loaded at the start of
\* the run has not
AddedTo(d) == DOMAIN d \ DOMAIN existing_sections

\* C37: an id that an extraction run adds to extracted_sections, and so to
\* the sections file it writes, is one for which this run committed an UPDATE
\* whose re-read agreed with what was sent; the entry is the result that was
\* written and has an abstract or a conclusion.
C37_CachedOnlyAfterVerifiedWrite ==
    InExtractionRun =>
        /\ \A id \in AddedTo(extracted_sections) :
                /\ id \in ex_written
                /\ id \in ex_verified
                /\ id \notin ex_mismatched
                /\ extracted_sections[id] = extract_sections(conv[id])
                /\ extracted_sections[id].abstract # NoneText
                        \/ extracted_sections[id].conclusion # NoneText
        /\ AddedTo(sections_json) \subseteq AddedTo(extracted_sections)

\* C37 witness: a run has ended and saved a sections file with a new id,
\* while another document of the run, whose UPDATE was committed but not
\* verified, is not in the file.
C37_Witness ==
    /\ ExtractionRunSaved
    /\ AddedTo(sections_json) # {}
    /\ \E id \in ex_written : id \notin ex_verified /\ id \notin DOMAIN sections_json

----------------------------------------------------------------------------
(* An extraction run that is cut short *)

\* the extraction run was cut short before the statement that saves the file
CutShort == entry = "stages" /\ st_pc = "idle" /\ last_stage = "extract_interrupted"

\* the loop of an extraction run is going on
InLoop == entry = "stages" /\ st_pc = "ex_loop"

\* the loop of the current run has passed the document id
Passed(id) == \E k \in 1..(di - 1) : documents[k] = id

\* C38: while the loop of an extraction run goes on, and when the run is cut
\* short before its save, the sections file is the one loaded at the start
\* of the run, the rows written so far keep what was written and their ids
\* are not in the file; the run that follows extracts those documents again
\* and, unless the database fails, writes them again.
C38_CacheSavedOnlyAtTheEnd ==
    /\ (InLoop \/ CutShort) =>
            /\ sections_json = existing_sections
            /\ \A id \in ex_written :
                    /\ db[id] = Merge(ex_db0[id], extract_sections(conv[id]))
                    /\ id \notin DOMAIN sections_json
    /\ (InExtractionRun \/ CutShort) =>
            \A id \in ex_redo :
                Passed(id) =>
                    /\ id \in ex_invoked
                    /\ id \in ex_written \/ id \in ex_failed_ids
                    /\ ex_clean => id \in ex_written

\* C38 witness: a run that had written a document was cut short, and the run
\* after it has extracted and written that document again and saved it in
\* the sections file.
C38_Witness ==
    /\ ExtractionRunSaved
    /\ ex_redo # {}
    /\ ex_redo \subseteq ex_invoked
    /\ ex_redo \subseteq ex_written
    /\ ex_redo \subseteq AddedTo(sections_json)

----------------------------------------------------------------------------
(* The status during the first run of a WorkflowManager *)

\* the stages recorded as not succeeded
NotSucceeded == {n \in DOMAIN get_status : ~get_status[n]}

\* the first run of run_full_workflow on the object has begun
FirstRun == wm = "ready" /\ runs = 1

\* C39: during and after the first run on a new WorkflowManager the status
\* has a record only for stages of the run; the stages before the current
\* position of the loop are recorded True, the stages after it have no
\* record, and the stage at it is recorded False exactly while it runs and
\* after it failed, so at most one stage is recorded False.
C39_AtMostOneNotSucceeded ==
    FirstRun =>
        /\ Cardinality(NotSucceeded) <= 1
        /\ DOMAIN get_status \subseteq Range(steps)
        /\ \A k \in 1..Len(steps) :
                /\ k < i => (steps[k] \in DOMAIN get_status /\ get_status[steps[k]])
                /\ k > i => steps[k] \notin DOMAIN get_status
                /\ k = i =>
                        IF pc = "in_step" \/ (pc = "returned" /\ log_error # <<>>
                                                /\ log_error[1] = "failed_at_step")
                        THEN NotSucceeded = {steps[k]}
                        ELSE steps[k] \notin DOMAIN get_status
        /\ (pc = "returned" /\ ret = "True") => NotSucceeded = {}

\* C39 witness: the first run, started at download, has failed at extract:
\* download and parse are recorded True, extract False, summarise and the
\* stages before download have no record.
C39_Witness ==
    /\ FirstRun
    /\ pc = "returned"
    /\ ret = "False"
    /\ start_from = "download"
    /\ DOMAIN get_status = {"download", "parse", "extract"}
    /\ get_status["download"] /\ get_status["parse"] /\ ~get_status["extract"]

============================================================================
